---- MODULE Spec2Model ----
(***************************************************************************)
(* Hulimane Labour Management: the global store (GlobalStore.js), the      *)
(* validators and balance projections (balance.js), the ledger projection  *)
(* (LedgerScreen), the master-data and entry/payment screens that dispatch *)
(* to the store, and backup import / restore (backupRestore.js,            *)
(* BackupRestoreScreen).                                                   *)
(*                                                                         *)
(* Encoding of JavaScript values                                           *)
(*   ids          Date.now().toString() strings; here naturals >= 1, and  *)
(*                NoId (0) stands for null / undefined / ''                *)
(*   dates        'yyyy-MM-dd' strings; here day numbers >= 1, NoDate (0)  *)
(*                stands for null                                          *)
(*   arrays       sequences; Subcategory.categoryIds is a set, since the   *)
(*                code only filters it, tests membership and tests         *)
(*                length > 0                                               *)
(*   JSON text    the value it parses to; JSON.stringify followed by       *)
(*                JSON.parse is the identity on the values modelled here   *)
(*                (finite numbers, strings, arrays, plain objects)         *)
(***************************************************************************)
EXTENDS Integers, Sequences, FiniteSets, TLC

\* ------------------------------------------------------------------ bounds
MaxWorkers == 1
MaxCategories == 2
MaxSubcategories == 1
MaxEntries == 1
MaxPayments == 1
MaxDate == 1
MaxInflight == 1
MaxIoFailures == 1
MaxRestores == 1
MaxTicks == 1

NoId == 0
NoDate == 0

WorkerIds == 1..MaxWorkers
CategoryIds == 1..MaxCategories
SubcategoryIds == 1..MaxSubcategories
EntryIds == 1..MaxEntries
PaymentIds == 1..MaxPayments
Dates == 1..MaxDate

\* ----------------------------------------------------------- seq helpers
Range(s) == {s[i] : i \in DOMAIN s}

\* index of the first element passing the test, 0 when there is none, where
\* test[k] tells whether the k-th element passes
\* (Array.prototype.find returns that element, or undefined)
FindIndex(test) ==
  IF \E i \in DOMAIN test : test[i]
  THEN CHOOSE i \in DOMAIN test : test[i] /\ \A j \in 1..(i - 1) : ~test[j]
  ELSE 0

Ids(s) == {s[i].id : i \in DOMAIN s}

\* ------------------------------------------------------------- the store
initialState ==
  [ workers |-> <<>>, categories |-> <<>>, subcategories |-> <<>>,
    entries |-> <<>>, payments |-> <<>>, deferredMessages |-> <<>>,
    schemaVersion |-> 0, isInitialized |-> FALSE ]

\* case 'DELETE_CATEGORY': the map over subcategories
DropCategoryRef(s, deletedId) ==
  IF s.isArr
  THEN [s EXCEPT !.categoryIds = s.categoryIds \ {deletedId}]
  ELSE IF s.categoryId # NoId /\ s.categoryId = deletedId
       THEN [s EXCEPT !.categoryId = NoId, !.isArr = TRUE, !.categoryIds = {}]
       ELSE s

\* case 'DELETE_CATEGORY': the filter that drops orphaned subcategories
HasIds(s) == (s.isArr /\ s.categoryIds # {}) \/ s.categoryId # NoId

DeleteCategoryCascade(subs, deletedId) ==
  LET mapped == [i \in DOMAIN subs |-> DropCategoryRef(subs[i], deletedId)]
  IN  SelectSeq(mapped, HasIds)

DeleteWorkerReduce(st, workerId) ==
  [st EXCEPT !.workers = SelectSeq(st.workers, LAMBDA w : w.id # workerId)]

\* SET_ALL: { ...state, ...action.payload }; payload is a record, and every
\* key it carries overwrites the one of state
SetAll(st, payload) ==
  [k \in DOMAIN st |-> IF k \in DOMAIN payload THEN payload[k] ELSE st[k]]

reducer(st, action) ==
  CASE action.type = "SET_ALL" -> SetAll(st, action.payload)
    [] action.type = "ADD_WORKER" ->
         [st EXCEPT !.workers = Append(st.workers, action.payload)]
    [] action.type = "UPDATE_WORKER" ->
         [st EXCEPT !.workers =
            [i \in DOMAIN st.workers |->
               IF st.workers[i].id = action.payload.id
               THEN action.payload ELSE st.workers[i]]]
    [] action.type = "DELETE_WORKER" -> DeleteWorkerReduce(st, action.payload)
    [] action.type = "ADD_CATEGORY" ->
         [st EXCEPT !.categories = Append(st.categories, action.payload)]
    [] action.type = "UPDATE_CATEGORY" ->
         [st EXCEPT !.categories =
            [i \in DOMAIN st.categories |->
               IF st.categories[i].id = action.payload.id
               THEN action.payload ELSE st.categories[i]]]
    [] action.type = "DELETE_CATEGORY" ->
         [st EXCEPT
            !.categories = SelectSeq(st.categories, LAMBDA c : c.id # action.payload),
            !.subcategories = DeleteCategoryCascade(st.subcategories, action.payload)]
    [] action.type = "ADD_SUBCATEGORY" ->
         [st EXCEPT !.subcategories = Append(st.subcategories, action.payload)]
    [] action.type = "UPDATE_SUBCATEGORY" ->
         [st EXCEPT !.subcategories =
            [i \in DOMAIN st.subcategories |->
               IF st.subcategories[i].id = action.payload.id
               THEN action.payload ELSE st.subcategories[i]]]
    [] action.type = "DELETE_SUBCATEGORY" ->
         [st EXCEPT !.subcategories =
            SelectSeq(st.subcategories, LAMBDA s : s.id # action.payload)]
    [] action.type = "ADD_ENTRY" ->
         [st EXCEPT !.entries = Append(st.entries, action.payload)]
    [] action.type = "UPDATE_ENTRY" ->
         [st EXCEPT !.entries =
            [i \in DOMAIN st.entries |->
               IF st.entries[i].id = action.payload.id
               THEN action.payload ELSE st.entries[i]]]
    [] action.type = "DELETE_ENTRY" ->
         [st EXCEPT !.entries =
            SelectSeq(st.entries, LAMBDA e : e.id # action.payload)]
    [] action.type = "ADD_PAYMENT" ->
         [st EXCEPT !.payments = Append(st.payments, action.payload)]
    [] action.type = "UPDATE_PAYMENT" ->
         [st EXCEPT !.payments =
            [i \in DOMAIN st.payments |->
               IF st.payments[i].id = action.payload.id
               THEN action.payload ELSE st.payments[i]]]
    [] action.type = "DELETE_PAYMENT" ->
         [st EXCEPT !.payments =
            SelectSeq(st.payments, LAMBDA p : p.id # action.payload)]
    [] OTHER -> st

\* ------------------------------------------------------------ balance.js
ErrWorkerRequired == "Worker is required"
ErrDateRequired == "Date is required"
ErrInvalidStatus == "Invalid attendance status"
ErrDuplicate == "Attendance already recorded for this worker and date"
ErrCategoryRequired == "Category is required for Work A entries"
ErrSubcategoryRequired == "Subcategory is required for Work A entries"
ErrSubNotFound == "Selected subcategory not found"
ErrSubNotAssociated == "Subcategory is not associated with selected category"
ErrWorkName == "Work name is required for Work B entries"
ErrUnits == "Valid units completed is required for Work B entries"
ErrRate == "Valid rate per unit is required for Work B entries"
ErrAmount == "Valid amount is required for non-absent entries"
ErrPaymentAmount == "Valid amount is required"
ErrPaymentType == "Payment type is required"
Valid == "valid"

\* sub.categoryIds.includes(categoryId) || sub.categoryId === categoryId
Belongs(sub, categoryId) ==
  (sub.isArr /\ categoryId \in sub.categoryIds)
    \/ (sub.categoryId # NoId /\ sub.categoryId = categoryId)

\* lines 81-88: find() returns the first entry of that worker and date
DuplicateCheck(entry, st) ==
  LET i == FindIndex([k \in DOMAIN st.entries |->
                        st.entries[k].workerId = entry.workerId
                        /\ st.entries[k].date = entry.date])
  IN  i # 0 /\ st.entries[i].id # entry.id

\* lines 93-109: Work A (and a missing workType)
WorkACheck(entry, st) ==
  IF entry.categoryId = NoId THEN ErrCategoryRequired
  ELSE IF entry.subcategoryId = NoId THEN ErrSubcategoryRequired
  ELSE LET i == FindIndex([k \in DOMAIN st.subcategories |->
                           st.subcategories[k].id = entry.subcategoryId])
       IN  IF i = 0 THEN ErrSubNotFound
           ELSE IF ~Belongs(st.subcategories[i], entry.categoryId)
                THEN ErrSubNotAssociated
                ELSE Valid

\* lines 112-124: Work B
WorkBCheck(entry) ==
  IF entry.workName = "" THEN ErrWorkName
  ELSE IF entry.units <= 0 THEN ErrUnits
  ELSE IF entry.ratePerUnit <= 0 THEN ErrRate
  ELSE Valid

\* validateEntry returns { valid, error }; here the error text, or Valid
validateEntry(entry, st) ==
  IF entry.workerId = NoId THEN ErrWorkerRequired
  ELSE IF entry.date = NoDate THEN ErrDateRequired
  ELSE IF entry.status \notin {"P", "A", "H"} THEN ErrInvalidStatus
  ELSE IF DuplicateCheck(entry, st) THEN ErrDuplicate
  ELSE IF entry.status = "A" THEN Valid
  ELSE LET a == IF entry.workType \in {"A", ""} THEN WorkACheck(entry, st) ELSE Valid
           b == IF entry.workType = "B" THEN WorkBCheck(entry) ELSE Valid
       IN  IF a # Valid THEN a
           ELSE IF b # Valid THEN b
           ELSE IF entry.amount <= 0 THEN ErrAmount
           ELSE Valid

validatePayment(payment) ==
  IF payment.workerId = NoId THEN ErrWorkerRequired
  ELSE IF payment.date = NoDate THEN ErrDateRequired
  ELSE IF payment.amount <= 0 THEN ErrPaymentAmount
  ELSE IF payment.paymentType = "" THEN ErrPaymentType
  ELSE Valid

\* ------------------------------------------------------ JavaScript Number
\* A Number is a binary floating-point value: every sum and difference is
\* rounded to the nearest value with SignificandBits significant bits, ties to
\* the even significand (53 bits in JavaScript; fewer here, so that rounding
\* happens at the magnitudes explored). Numbers are written as integers;
\* halving an even integer is exact.
SignificandBits == 11

RECURSIVE Pow2(_)
Pow2(n) == IF n = 0 THEN 1 ELSE 2 * Pow2(n - 1)

\* the spacing of the representable values around x >= 0
RECURSIVE Spacing(_, _)
Spacing(x, q) == IF x < Pow2(SignificandBits) * q THEN q ELSE Spacing(x, 2 * q)

RoundMagnitude(x) ==
  LET q == Spacing(x, 1)
      lo == (x \div q) * q
      rem == x - lo
  IN  IF 2 * rem < q THEN lo
      ELSE IF 2 * rem > q THEN lo + q
      ELSE IF (lo \div q) % 2 = 0 THEN lo ELSE lo + q

Round(x) == IF x >= 0 THEN RoundMagnitude(x) ELSE 0 - RoundMagnitude(0 - x)

\* a + b, a - b, a / 2
NumAdd(a, b) == Round(a + b)
NumSub(a, b) == Round(a - b)
NumHalf(a) == a \div 2

\* ------------------------------------------- balance.js: getWorkerBalance
\* a variant of the reducer below that counts a Half entry in full
AddEntryAmountHalfInFull(sum, e) ==
  IF e.status \in {"P", "H"} THEN NumAdd(sum, e.amount) ELSE sum

\* lines 28-34: the reducer of sumEntries
AddEntryAmount(sum, e) ==
  IF e.status = "P" THEN NumAdd(sum, e.amount)
  ELSE IF e.status = "H" THEN NumAdd(sum, NumHalf(e.amount))
  ELSE sum

\* lines 26-34: entries.reduce(AddEntryAmount, sum), from the first entry on
RECURSIVE sumEntries(_, _)
sumEntries(entries, sum) ==
  IF entries = <<>> THEN sum
  ELSE sumEntries(Tail(entries), AddEntryAmount(sum, Head(entries)))

\* line 39: the reducer of sumPayments
AddPaymentAmount(sum, p) == NumAdd(sum, p.amount)

\* lines 37-39: payments.reduce(AddPaymentAmount, sum)
RECURSIVE sumPayments(_, _)
sumPayments(payments, sum) ==
  IF payments = <<>> THEN sum
  ELSE sumPayments(Tail(payments), AddPaymentAmount(sum, Head(payments)))

\* lines 19-44
getWorkerBalance(workerId, st) ==
  IF workerId = NoId THEN 0
  ELSE LET i == FindIndex([k \in DOMAIN st.workers |-> st.workers[k].id = workerId])
           openingBalance == IF i = 0 THEN 0 ELSE st.workers[i].openingBalance
           entries == SelectSeq(st.entries, LAMBDA e : e.workerId = workerId)
           payments == SelectSeq(st.payments, LAMBDA p : p.workerId = workerId)
       IN  NumSub(NumAdd(openingBalance, sumEntries(entries, 0)),
                  sumPayments(payments, 0))

\* ------------------------------------ LedgerScreen: ledgerTransactions
\* lines 58-73 and 80-95: the transaction record of an entry, of a payment
EntryTransaction(e) ==
  [id |-> e.id, type |-> "entry", date |-> e.date, attendance |-> e.status,
   amount |-> e.amount, balanceAfter |-> 0]

PaymentTransaction(p) ==
  [id |-> p.id, type |-> "payment", date |-> p.date, attendance |-> "-",
   amount |-> 0 - p.amount, balanceAfter |-> 0]

\* line 99: transactions.sort((a, b) => new Date(a.date) - new Date(b.date)),
\* a stable sort: t goes behind the records that are not later than it
RECURSIVE InsertByDate(_, _)
InsertByDate(sorted, t) ==
  IF sorted = <<>> THEN <<t>>
  ELSE IF Head(sorted).date <= t.date
       THEN <<Head(sorted)>> \o InsertByDate(Tail(sorted), t)
       ELSE <<t>> \o sorted

RECURSIVE SortInto(_, _)
SortInto(sorted, s) ==
  IF s = <<>> THEN sorted
  ELSE SortInto(InsertByDate(sorted, Head(s)), Tail(s))

SortByDate(s) == SortInto(<<>>, s)

\* lines 103-114: one step of the running balance
RunningBalance(runningBalance, trans) ==
  IF trans.type = "entry"
  THEN IF trans.attendance = "P" THEN NumAdd(runningBalance, trans.amount)
       ELSE IF trans.attendance = "H"
            THEN NumAdd(runningBalance, NumHalf(trans.amount))
            ELSE runningBalance
  ELSE NumAdd(runningBalance, trans.amount)

\* lines 102-116: balanceAfter of every record, in order
RECURSIVE WithBalanceAfter(_, _)
WithBalanceAfter(transactions, runningBalance) ==
  IF transactions = <<>> THEN <<>>
  ELSE LET next == RunningBalance(runningBalance, Head(transactions))
       IN  <<[Head(transactions) EXCEPT !.balanceAfter = next]>>
             \o WithBalanceAfter(Tail(transactions), next)

\* lines 47-122
ledgerTransactions(workerId, st) ==
  LET i == FindIndex([k \in DOMAIN st.workers |-> st.workers[k].id = workerId])
      entries == SelectSeq(st.entries, LAMBDA e : e.workerId = workerId)
      payments == SelectSeq(st.payments, LAMBDA p : p.workerId = workerId)
      transactions ==
        [k \in DOMAIN entries |-> EntryTransaction(entries[k])]
          \o [k \in DOMAIN payments |-> PaymentTransaction(payments[k])]
  IN  IF i = 0 THEN <<>>
      ELSE WithBalanceAfter(SortByDate(transactions), st.workers[i].openingBalance)

\* ------------------------------------------------------- record shapes
\* Worker: WorkerMasterScreen.addWorker
Worker(id, openingBalance) == [id |-> id, openingBalance |-> openingBalance]

\* Category: CategoryMasterScreen.addCategory
Category(id) == [id |-> id]

\* Subcategory. isArr: Array.isArray(categoryIds); categoryId: the legacy
\* scalar field (NoId when the key is absent)
Subcategory(id, isArr, categoryIds, categoryId) ==
  [id |-> id, isArr |-> isArr, categoryIds |-> categoryIds, categoryId |-> categoryId]

Payment(id, workerId, date, amount, paymentType) ==
  [id |-> id, workerId |-> workerId, date |-> date, amount |-> amount,
   paymentType |-> paymentType]

\* ------------------------------------------------- EntryScreen.handleSave
\* the form state of EntryScreen / EditEntryModal
\* (the values a user enters in the runs explored)
FormStatuses == {"P", "A"}
FormAmounts == {0, 2}
FormUnits == {1}
FormRates == {2}
FormWorkNames == {"dig"}

\* the subcategory picker offers the subcategories of the selected category
\* and is reset to null when the category or the subcategories change
Offered(s, category) ==
  IF s.isArr THEN category \in s.categoryIds
  ELSE s.categoryId # NoId /\ s.categoryId = category

SubChoices(st, category) ==
  {NoId} \cup {st.subcategories[i].id : i \in
                 {j \in DOMAIN st.subcategories : Offered(st.subcategories[j], category)}}

EntryForms(st, workerChoices) ==
  [worker : workerChoices, date : Dates, status : FormStatuses \cap {"A"},
   workType : {"A"}, category : {NoId}, subcategory : {NoId},
   workName : {""}, units : {0}, ratePerUnit : {0}, amount : {0}]
  \cup
  UNION {[worker : workerChoices, date : Dates, status : FormStatuses \ {"A"},
          workType : {"A"}, category : {c}, subcategory : SubChoices(st, c),
          workName : {""}, units : {0}, ratePerUnit : {0}, amount : FormAmounts]
         : c \in {NoId} \cup Ids(st.categories)}
  \cup
  [worker : workerChoices, date : Dates, status : FormStatuses \ {"A"},
   workType : {"B"}, category : {NoId}, subcategory : {NoId},
   workName : FormWorkNames, units : FormUnits, ratePerUnit : FormRates,
   amount : FormAmounts]

\* lines 1620-1634 (and EditEntryModal lines 90-102): the entry built from
\* the form
EntryFromForm(id, workerId, f) ==
  [id |-> id, workerId |-> workerId, date |-> f.date, status |-> f.status,
   workType |-> f.workType,
   categoryId |-> IF f.status = "A" THEN NoId
                  ELSE IF f.workType = "A" THEN f.category ELSE NoId,
   subcategoryId |-> IF f.status = "A" THEN NoId
                     ELSE IF f.workType = "A" THEN f.subcategory ELSE NoId,
   workName |-> IF f.workType = "B" /\ f.status # "A" THEN f.workName ELSE "",
   units |-> IF f.workType = "B" /\ f.status # "A" THEN f.units ELSE 0,
   ratePerUnit |-> IF f.workType = "B" /\ f.status # "A" THEN f.ratePerUnit ELSE 0,
   amount |-> IF f.status = "A" THEN 0 ELSE f.amount]

\* lines 1636-1674: the screen's own checks before validateEntry
FormPreCheck(f) ==
  IF f.status = "A" THEN Valid
  ELSE IF f.workType = "A" /\ f.category = NoId THEN ErrCategoryRequired
  ELSE IF f.workType = "A" /\ f.subcategory = NoId THEN ErrSubcategoryRequired
  ELSE IF f.workType = "B" /\ f.workName = "" THEN ErrWorkName
  ELSE IF f.workType = "B" /\ f.units <= 0 THEN ErrUnits
  ELSE IF f.workType = "B" /\ f.ratePerUnit <= 0 THEN ErrRate
  ELSE IF f.amount <= 0 THEN ErrAmount
  ELSE Valid

\* lines 1691-1705: the mapping check after validateEntry
FormPostCheck(entry, st) ==
  IF entry.status # "A" /\ entry.workType = "A"
  THEN LET i == FindIndex([k \in DOMAIN st.subcategories |->
                           st.subcategories[k].id = entry.subcategoryId])
       IN  IF i = 0 THEN ErrSubNotFound
           ELSE IF ~Belongs(st.subcategories[i], entry.categoryId)
                THEN ErrSubNotAssociated ELSE Valid
  ELSE Valid

\* a variant of the outcome below that leaves validateEntry out
AddEntryOutcomeUnvalidated(entry, f, st) ==
  IF f.worker = NoId THEN "Please select a worker."
  ELSE IF FormPreCheck(f) # Valid THEN FormPreCheck(f)
  ELSE FormPostCheck(entry, st)

\* the outcome of EntryScreen.handleSave for a form: Valid, or the message shown
AddEntryOutcome(entry, f, st) ==
  IF f.worker = NoId THEN "Please select a worker."
  ELSE IF FormPreCheck(f) # Valid THEN FormPreCheck(f)
  ELSE IF validateEntry(entry, st) # Valid THEN validateEntry(entry, st)
  ELSE FormPostCheck(entry, st)

\* EditEntryModal.handleSave lines 104-129 (the Work B checks of lines
\* 112-129 repeat those of validateEntry on the same values)
EditEntryOutcome(entry, st) ==
  IF validateEntry(entry, st) # Valid THEN validateEntry(entry, st)
  ELSE IF entry.status # "A" /\ entry.workType = "B"
       THEN WorkBCheck(entry)
       ELSE Valid

\* Date.now().toString() of a save the user triggers: an id no record of the
\* collection carries and none refers to (two saves are never within one
\* millisecond, and a new id is not the id of a record deleted earlier)
Least(S) == CHOOSE x \in S : \A y \in S : x <= y

ReferencedWorkers(st) ==
  {st.entries[i].workerId : i \in DOMAIN st.entries}
    \cup {st.payments[i].workerId : i \in DOMAIN st.payments}

ReferencedCategories(st) ==
  {st.entries[i].categoryId : i \in DOMAIN st.entries}
    \cup UNION {st.subcategories[i].categoryIds : i \in DOMAIN st.subcategories}
    \cup {st.subcategories[i].categoryId : i \in DOMAIN st.subcategories}

ReferencedSubcategories(st) ==
  {st.entries[i].subcategoryId : i \in DOMAIN st.entries}

FreeWorkerIds(st) == WorkerIds \ (Ids(st.workers) \cup ReferencedWorkers(st))
FreeCategoryIds(st) == CategoryIds \ (Ids(st.categories) \cup ReferencedCategories(st))
FreeSubcategoryIds(st) ==
  SubcategoryIds \ (Ids(st.subcategories) \cup ReferencedSubcategories(st))
FreeEntryIds(st) == EntryIds \ Ids(st.entries)
FreePaymentIds(st) == PaymentIds \ Ids(st.payments)

\* ------------------------------------------------------ backup documents
\* A parsed backup document. isObject: JSON.parse gave an object and not
\* null, a number, a string or a boolean; version: the value of that key;
\* hasAppData: the key is present and truthy; each collection of appData is
\* [isArray, items].
NoVersion == "<undefined>"
VersionValues == {NoVersion, "", "1.0"}

\* !v is false
Truthy(v) == v # NoVersion /\ v # ""

Coll(items) == [isArray |-> TRUE, items |-> items]
NotAnArray == [isArray |-> FALSE, items |-> <<>>]

CollectionNames == {"workers", "categories", "subcategories", "entries", "payments"}

requiredFields == <<"workers", "categories", "subcategories", "entries", "payments">>

\* a variant of the validation below that leaves payments out of the
\* required fields
validateBackupDataWithoutPayments(doc) ==
  IF ~doc.isObject THEN "Invalid backup file format"
  ELSE IF ~Truthy(doc.version) THEN "Backup version not found"
  ELSE IF ~doc.hasAppData THEN "App data not found in backup"
  ELSE LET fields == SubSeq(requiredFields, 1, Len(requiredFields) - 1)
           i == FindIndex([k \in DOMAIN fields |-> ~doc.appData[fields[k]].isArray])
       IN  IF i # 0 THEN "Invalid or missing " \o fields[i] \o " data"
           ELSE Valid

\* a variant of the validation below that does not look at the version
validateBackupDataWithoutVersion(doc) ==
  IF ~doc.isObject THEN "Invalid backup file format"
  ELSE IF ~doc.hasAppData THEN "App data not found in backup"
  ELSE LET i == FindIndex([k \in DOMAIN requiredFields |->
                           ~doc.appData[requiredFields[k]].isArray])
       IN  IF i # 0 THEN "Invalid or missing " \o requiredFields[i] \o " data"
           ELSE Valid

\* validateBackupData lines 307-329
validateBackupData(doc) ==
  IF ~doc.isObject THEN "Invalid backup file format"
  ELSE IF ~Truthy(doc.version) THEN "Backup version not found"
  ELSE IF ~doc.hasAppData THEN "App data not found in backup"
  ELSE LET i == FindIndex([k \in DOMAIN requiredFields |->
                           ~doc.appData[requiredFields[k]].isArray])
       IN  IF i # 0 THEN "Invalid or missing " \o requiredFields[i] \o " data"
           ELSE Valid

\* a variant of the restored state below that carries no payments
restoredStateWithoutPayments(data) ==
  [ workers |-> data.workers.items, categories |-> data.categories.items,
    subcategories |-> data.subcategories.items, entries |-> data.entries.items,
    payments |-> <<>>, deferredMessages |-> <<>>,
    isInitialized |-> TRUE, schemaVersion |-> 1 ]

\* restoreBackup lines 357-367: backupData.<field> || []
restoredState(data) ==
  [ workers |-> data.workers.items, categories |-> data.categories.items,
    subcategories |-> data.subcategories.items, entries |-> data.entries.items,
    payments |-> data.payments.items, deferredMessages |-> <<>>,
    isInitialized |-> TRUE, schemaVersion |-> 1 ]

\* validateAndRecalculateBalances lines 464-478: the issue of a worker's Work A
\* entries, if any of them is not absent and lacks a category or subcategory
InvalidEntries(worker, data) ==
  SelectSeq(data.entries.items,
            LAMBDA e : /\ e.workerId = worker.id
                       /\ e.workType = "A" /\ e.status # "A"
                       /\ (e.categoryId = NoId \/ e.subcategoryId = NoId))

\* lines 480-493: the same for Work B entries that lack the name, the units
\* or the rate
InvalidWorkBEntries(worker, data) ==
  SelectSeq(data.entries.items,
            LAMBDA e : /\ e.workerId = worker.id
                       /\ e.workType = "B" /\ e.status # "A"
                       /\ (e.workName = "" \/ e.units = 0 \/ e.ratePerUnit = 0))

\* lines 460-494: state.workers.forEach pushes up to two issues per worker
RECURSIVE IssuesOf(_, _)
IssuesOf(workers, data) ==
  IF workers = <<>> THEN <<>>
  ELSE LET worker == Head(workers)
           a == InvalidEntries(worker, data)
           b == InvalidWorkBEntries(worker, data)
       IN  (IF a # <<>>
            THEN <<[type |-> "invalid_entries", workerId |-> worker.id,
                    count |-> Len(a)]>>
            ELSE <<>>)
           \o (IF b # <<>>
               THEN <<[type |-> "invalid_work_b_entries", workerId |-> worker.id,
                       count |-> Len(b)]>>
               ELSE <<>>)
           \o IssuesOf(Tail(workers), data)

\* validateAndRecalculateBalances lines 454-514: the issues it returns
validateAndRecalculateBalances(data) == IssuesOf(data.workers.items, data)

\* a variant of the message below that reports a failure when issues exist
restoredMessageFailingOnIssues(issues) ==
  IF Len(issues) > 0 THEN "Restore failed: data integrity issues"
  ELSE "Backup restored successfully!"

\* confirmRestore lines 238-241: the message of a successful restore
restoredMessage(issues) ==
  IF Len(issues) > 0
  THEN "Backup restored successfully! Note: " \o ToString(Len(issues))
         \o " data integrity issues found."
  ELSE "Backup restored successfully!"

\* confirmRestore lines 262-268: result.error is the message of the error that
\* restoreBackup caught, here the rejection of an AsyncStorage call
StorageError == "storage error"
restoreFailedMessage == "Restore failed: " \o StorageError

\* the documents a user may import: contents of each collection
ImportEntry(id, workerId, date) ==
  [id |-> id, workerId |-> workerId, date |-> date, status |-> "P", workType |-> "A",
   categoryId |-> 1, subcategoryId |-> 1, workName |-> "", units |-> 0,
   ratePerUnit |-> 0, amount |-> 2]

AppData(w, c, s, e, p) ==
  [workers |-> Coll(w), categories |-> Coll(c), subcategories |-> Coll(s),
   entries |-> Coll(e), payments |-> Coll(p)]

WellShaped(appData) ==
  [isObject |-> TRUE, version |-> "1.0", hasAppData |-> TRUE, appData |-> appData]

\* an export of this version of the app
DocPlain ==
  WellShaped(AppData(<<Worker(1, 0)>>, <<Category(1), Category(2)>>,
                     <<Subcategory(1, TRUE, {1, 2}, NoId)>>,
                     <<ImportEntry(1, 1, 1)>>, <<Payment(1, 1, 1, 2, "Cash")>>))

\* a document whose subcategory carries both categoryIds and the older
\* categoryId field
DocBothShapes ==
  WellShaped(AppData(<<>>, <<Category(1), Category(2)>>,
                     <<Subcategory(1, TRUE, {1}, 1)>>, <<>>, <<>>))

\* a document with two entries of one worker on one date
DocTwoEntries ==
  WellShaped(AppData(<<Worker(1, 0)>>, <<>>, <<>>,
                     <<ImportEntry(1, 1, 1), ImportEntry(2, 1, 1)>>, <<>>))

\* a document with a Work B entry that names no work, units or rate
DocMissingFields ==
  WellShaped(AppData(<<Worker(1, 0)>>, <<>>, <<>>,
                     <<[ImportEntry(1, 1, 1) EXCEPT !.workType = "B"]>>, <<>>))

DocEmpty == WellShaped(AppData(<<>>, <<>>, <<>>, <<>>, <<>>))

WellShapedDocs == {DocPlain, DocBothShapes, DocTwoEntries, DocMissingFields, DocEmpty}

EmptyAppData == [f \in CollectionNames |-> Coll(<<>>)]

\* JSON text that is not an object: null, a number, a string
NotADocument ==
  [isObject |-> FALSE, version |-> NoVersion, hasAppData |-> FALSE,
   appData |-> EmptyAppData]

BrokenDocs ==
  { NotADocument,
    [WellShaped(EmptyAppData) EXCEPT !.version = NoVersion],
    [WellShaped(EmptyAppData) EXCEPT !.version = ""],
    [WellShaped(EmptyAppData) EXCEPT !.hasAppData = FALSE] }
  \cup
  { WellShaped([EmptyAppData EXCEPT ![f] = NotAnArray]) : f \in CollectionNames }

ImportDocs == WellShapedDocs \cup BrokenDocs

\* ------------------------------------------------------------ the program
VARIABLES
  state,          \* the reducer's state (GlobalStoreProvider)
  persisted,      \* AsyncStorage 'globalStore': [present, data]
  ioq,            \* AsyncStorage's serial queue of pending 'globalStore' writes
  snapshots,      \* number of globalStore_pre_restore_* keys written
  currentState,   \* restoreBackup's currentState (line 348) while it is in use
  migrationBackups, \* number of globalStore_backup_* keys written
  restoreData,    \* BackupRestoreScreen.restoreData: [present, data]
  pc,             \* where confirmRestore / restoreBackup stands
  restoreResult,  \* the result of the last restoreBackup: "none", "success", "failed"
  snackbar,       \* BackupRestoreScreen.snackbar: the message shown for a
                  \* refused import (Valid: none shown)
  ioFailures,     \* AsyncStorage operations that failed so far
  restores,       \* restores started so far
  call            \* a call of a pure function under study: its arguments
                  \* and, once it has returned, its result

vars == <<state, persisted, ioq, snapshots, currentState, migrationBackups, restoreData, pc,
          restoreResult, snackbar, ioFailures, restores, call>>

NoCall == [fn |-> "none"]
NoBlob == [present |-> FALSE, data |-> initialState]
Blob(st) == [present |-> TRUE, data |-> st]
NoRestoreData == [present |-> FALSE, data |-> EmptyAppData]

\* the persist effect (GlobalStore.js lines 173-177) runs after every state
\* change and queues a write of the new state once isInitialized
Effect(st) ==
  IF st.isInitialized THEN <<[blob |-> Blob(st), awaited |-> FALSE]>> ELSE <<>>

PendingEffects == Len(SelectSeq(ioq, LAMBDA w : ~w.awaited))

\* a handler may run: the store is loaded, no restore is in progress (the
\* loading overlay), and the queue has room for its persist write
UserCanAct ==
  /\ state.isInitialized
  /\ pc = "idle"
  /\ PendingEffects < MaxInflight

\* dispatch(action) followed by the persist effect
Dispatch(action) ==
  /\ state' = reducer(state, action)
  /\ ioq' = ioq \o Effect(reducer(state, action))

\* a handler that shows its message and returns before any dispatch (the
\* message of a master or entry screen is not part of the model's state)
Rejected(msg) == UNCHANGED vars

Accepted(action) ==
  /\ Dispatch(action)
  /\ UNCHANGED <<persisted, snapshots, currentState, migrationBackups, restoreData, pc,
                 restoreResult, snackbar, ioFailures, restores, call>>

\* ---------------------------------------------------- WorkerMasterScreen
FormOpeningBalances == {0}

\* addWorker lines 45-66
AddWorker ==
  /\ UserCanAct
  /\ FreeWorkerIds(state) # {}
  /\ \E ob \in FormOpeningBalances :
       Accepted([type |-> "ADD_WORKER",
                 payload |-> Worker(Least(FreeWorkerIds(state)), ob)])

\* updateWorker lines 68-88: name, address and phone change, id and
\* openingBalance are kept
UpdateWorker ==
  /\ UserCanAct
  /\ \E i \in DOMAIN state.workers :
       Accepted([type |-> "UPDATE_WORKER", payload |-> state.workers[i]])

\* deleteWorker lines 90-106
DeleteWorker ==
  /\ UserCanAct
  /\ \E w \in Ids(state.workers) :
       Accepted([type |-> "DELETE_WORKER", payload |-> w])

\* -------------------------------------------------- CategoryMasterScreen
\* addCategory lines 40-57
AddCategory ==
  /\ UserCanAct
  /\ FreeCategoryIds(state) # {}
  /\ Accepted([type |-> "ADD_CATEGORY",
               payload |-> Category(Least(FreeCategoryIds(state)))])

\* updateCategory lines 59-76: only the name changes
UpdateCategory ==
  /\ UserCanAct
  /\ \E i \in DOMAIN state.categories :
       Accepted([type |-> "UPDATE_CATEGORY", payload |-> state.categories[i]])

\* deleteCategory lines 78-94
DeleteCategory ==
  /\ UserCanAct
  /\ \E c \in Ids(state.categories) :
       Accepted([type |-> "DELETE_CATEGORY", payload |-> c])

ErrSelectCategory == "Please select at least one category"

\* validateSubcategoryForm lines 102-130 (the category chips of the form)
validateSubcategoryForm(categoryIds) ==
  IF categoryIds = {} THEN ErrSelectCategory ELSE Valid

\* addSubcategory lines 132-151
AddSubcategory ==
  /\ UserCanAct
  /\ FreeSubcategoryIds(state) # {}
  /\ \E cids \in SUBSET Ids(state.categories) :
       IF validateSubcategoryForm(cids) # Valid
       THEN Rejected(validateSubcategoryForm(cids))
       ELSE Accepted([type |-> "ADD_SUBCATEGORY",
                      payload |-> Subcategory(Least(FreeSubcategoryIds(state)),
                                              TRUE, cids, NoId)])

\* updateSubcategory lines 153-172: { ...editingSubcategory, categoryIds }
UpdateSubcategory ==
  /\ UserCanAct
  /\ \E i \in DOMAIN state.subcategories, cids \in SUBSET Ids(state.categories) :
       IF validateSubcategoryForm(cids) # Valid
       THEN Rejected(validateSubcategoryForm(cids))
       ELSE Accepted([type |-> "UPDATE_SUBCATEGORY",
                      payload |-> [state.subcategories[i] EXCEPT
                                     !.isArr = TRUE, !.categoryIds = cids]])

\* deleteSubcategory lines 174-190
DeleteSubcategory ==
  /\ UserCanAct
  /\ \E s \in Ids(state.subcategories) :
       Accepted([type |-> "DELETE_SUBCATEGORY", payload |-> s])

\* ------------------------------------------------- entries and payments
\* EntryScreen.handleSave lines 1611-1708
AddEntry ==
  /\ UserCanAct
  /\ FreeEntryIds(state) # {}
  /\ \E f \in EntryForms(state, {NoId} \cup Ids(state.workers)) :
       LET entry == EntryFromForm(Least(FreeEntryIds(state)), f.worker, f)
           out == AddEntryOutcome(entry, f, state)
       IN  IF out # Valid THEN Rejected(out)
           ELSE Accepted([type |-> "ADD_ENTRY", payload |-> entry])

\* the transactions LedgerScreen lists: those of a worker of the store
\* (ledgerTransactions is empty when the worker is not found)
Listed(coll) == {i \in DOMAIN coll : coll[i].workerId \in Ids(state.workers)}

\* EditEntryModal.handleSave lines 86-138, LedgerScreen.handleEditSave
EditEntry ==
  /\ UserCanAct
  /\ \E i \in Listed(state.entries) :
       \E f \in EntryForms(state, {state.entries[i].workerId}) :
         LET old == state.entries[i]
             entry == EntryFromForm(old.id, old.workerId, f)
             out == EditEntryOutcome(entry, state)
         IN  IF out # Valid THEN Rejected(out)
             ELSE Accepted([type |-> "UPDATE_ENTRY", payload |-> entry])

\* LedgerScreen.confirmDelete lines 190-203
DeleteEntry ==
  /\ UserCanAct
  /\ \E i \in Listed(state.entries) :
       Accepted([type |-> "DELETE_ENTRY", payload |-> state.entries[i].id])

PaymentTypes == {"Cash"}

\* PaymentScreen.savePaymentHandler lines 43-80
AddPayment ==
  /\ UserCanAct
  /\ FreePaymentIds(state) # {}
  /\ \E w \in {NoId} \cup Ids(state.workers), d \in Dates, a \in FormAmounts,
        t \in PaymentTypes :
       LET payment == Payment(Least(FreePaymentIds(state)), w, d, a, t)
       IN  IF validatePayment(payment) # Valid
           THEN Rejected(validatePayment(payment))
           ELSE Accepted([type |-> "ADD_PAYMENT", payload |-> payment])

\* EditPaymentModal.handleSave lines 376-403
EditPayment ==
  /\ UserCanAct
  /\ \E i \in Listed(state.payments), d \in Dates, a \in FormAmounts,
        t \in PaymentTypes :
       LET payment == [state.payments[i] EXCEPT
                         !.date = d, !.amount = a, !.paymentType = t]
       IN  IF validatePayment(payment) # Valid
           THEN Rejected(validatePayment(payment))
           ELSE Accepted([type |-> "UPDATE_PAYMENT", payload |-> payment])

DeletePayment ==
  /\ UserCanAct
  /\ \E i \in Listed(state.payments) :
       Accepted([type |-> "DELETE_PAYMENT", payload |-> state.payments[i].id])

\* ------------------------------------------- GlobalStoreProvider: load
\* lines 98-104; toNumber is the identity on the numbers modelled
normalizeWorker(w) == w

\* lines 106-117; now: what Date.now() gives when the record is normalized,
\* its id if it has none
normalizeEntry(e, now) ==
  [e EXCEPT
     !.id = IF e.id = NoId THEN now ELSE e.id,
     !.status = IF e.status \in {"P", "H", "A"} THEN e.status
                ELSE IF e.status = "Half" THEN "H"
                ELSE IF e.status = "Present" THEN "P" ELSE "A"]

\* lines 119-127
normalizePayment(p, now) ==
  [p EXCEPT
     !.id = IF p.id = NoId THEN now ELSE p.id,
     !.paymentType = IF p.paymentType = "" THEN "Cash" ELSE p.paymentType]

\* lines 129-135: the categoryId key is dropped
normalizeSubcategory(s) ==
  [s EXCEPT
     !.isArr = TRUE,
     !.categoryIds = IF s.isArr THEN s.categoryIds
                     ELSE IF s.categoryId # NoId THEN {s.categoryId} ELSE {},
     !.categoryId = NoId]

\* the clock readings of one migration, one for each entry and then one for
\* each payment, in the order normalized builds them: the clock does not go
\* back, it ticks at most MaxTicks times meanwhile, and it is past every id
\* taken from it earlier
LatestId(parsed) ==
  LET ids == Ids(parsed.entries) \cup Ids(parsed.payments) \cup {NoId}
  IN  CHOOSE m \in ids : \A k \in ids : k <= m

ClockReadings(parsed) ==
  LET n == Len(parsed.entries) + Len(parsed.payments)
      first == LatestId(parsed) + 1
  IN  {now \in [1..n -> first..(first + MaxTicks)] :
         \A i \in 1..n, j \in 1..n : i <= j => now[i] <= now[j]}

\* a variant of the normalized store below that is not stamped with the
\* schema version
normalizedUnstamped(parsed, now) ==
  [ workers |-> [i \in DOMAIN parsed.workers |-> normalizeWorker(parsed.workers[i])],
    categories |-> parsed.categories,
    subcategories |-> [i \in DOMAIN parsed.subcategories |->
                         normalizeSubcategory(parsed.subcategories[i])],
    entries |-> [i \in DOMAIN parsed.entries |->
                   normalizeEntry(parsed.entries[i], now[i])],
    payments |-> [i \in DOMAIN parsed.payments |->
                    normalizePayment(parsed.payments[i],
                                     now[Len(parsed.entries) + i])],
    deferredMessages |-> <<>>,
    schemaVersion |-> parsed.schemaVersion,
    isInitialized |-> TRUE ]

\* lines 137-147. The object names no deferredMessages: the blob written has
\* no outbox, and SET_ALL (line 20) leaves initialState's empty list in the
\* store; both are the empty list here
normalized(parsed, now) ==
  [ workers |-> [i \in DOMAIN parsed.workers |-> normalizeWorker(parsed.workers[i])],
    categories |-> parsed.categories,
    subcategories |-> [i \in DOMAIN parsed.subcategories |->
                         normalizeSubcategory(parsed.subcategories[i])],
    entries |-> [i \in DOMAIN parsed.entries |->
                   normalizeEntry(parsed.entries[i], now[i])],
    payments |-> [i \in DOMAIN parsed.payments |->
                    normalizePayment(parsed.payments[i],
                                     now[Len(parsed.entries) + i])],
    deferredMessages |-> <<>>,
    schemaVersion |-> 1,
    isInitialized |-> TRUE ]

\* a variant of the payload below that leaves the payments behind
InitializedWithoutPayments(st) ==
  [st EXCEPT !.isInitialized = TRUE, !.payments = <<>>]

\* line 79: { ...parsedData, isInitialized: true }
Initialized(st) == [st EXCEPT !.isInitialized = TRUE]

LoadFrame ==
  UNCHANGED <<snapshots, currentState, restoreData, pc, restoreResult, snackbar, restores, call>>

\* lines 160-163: nothing stored yet
LoadEmpty ==
  /\ ~state.isInitialized
  /\ ~persisted.present
  /\ Dispatch([type |-> "SET_ALL", payload |-> Initialized(initialState)])
  /\ UNCHANGED <<persisted, migrationBackups, ioFailures>>
  /\ LoadFrame

\* lines 164-168: getItem or JSON.parse threw
LoadError ==
  /\ ~state.isInitialized
  /\ ioFailures < MaxIoFailures
  /\ ioFailures' = ioFailures + 1
  /\ Dispatch([type |-> "SET_ALL", payload |-> Initialized(initialState)])
  /\ UNCHANGED <<persisted, migrationBackups>>
  /\ LoadFrame

\* lines 76-81: schemaVersion >= 1
LoadCurrent ==
  /\ ~state.isInitialized
  /\ persisted.present
  /\ persisted.data.schemaVersion >= 1
  /\ Dispatch([type |-> "SET_ALL", payload |-> Initialized(persisted.data)])
  /\ UNCHANGED <<persisted, migrationBackups, ioFailures>>
  /\ LoadFrame

\* lines 83-159: backup of the raw blob, normalization, write, dispatch
LoadMigrate ==
  /\ ~state.isInitialized
  /\ persisted.present
  /\ persisted.data.schemaVersion < 1
  /\ \E backupOk \in BOOLEAN, writeOk \in BOOLEAN,
        now \in ClockReadings(persisted.data) :
       LET failures == (IF backupOk THEN 0 ELSE 1) + (IF writeOk THEN 0 ELSE 1)
           norm == normalized(persisted.data, now)
       IN  /\ ioFailures + failures <= MaxIoFailures
           /\ ioFailures' = ioFailures + failures
           /\ migrationBackups' = IF backupOk THEN migrationBackups + 1
                                  ELSE migrationBackups
           /\ IF writeOk
              THEN /\ persisted' = Blob(norm)
                   /\ Dispatch([type |-> "SET_ALL", payload |-> norm])
              ELSE /\ persisted' = persisted
                   /\ Dispatch([type |-> "SET_ALL",
                                payload |-> Initialized(persisted.data)])
  /\ LoadFrame

\* ----------------------------------------------------------- AsyncStorage
\* the write at the head of the queue is carried out
IoWriteOk ==
  /\ ioq # <<>>
  /\ persisted' = Head(ioq).blob
  /\ ioq' = Tail(ioq)
  /\ IF Head(ioq).awaited
     THEN /\ pc' = "refreshing"
          /\ restoreResult' = "success"
          /\ snackbar' = restoredMessage(validateAndRecalculateBalances(restoreData.data))
     ELSE UNCHANGED <<pc, restoreResult, snackbar>>
  /\ UNCHANGED <<state, snapshots, currentState, migrationBackups, restoreData,
                 ioFailures, restores, call>>

\* the write at the head of the queue fails (setItem rejects)
IoWriteFail ==
  /\ ioq # <<>>
  /\ ioFailures < MaxIoFailures
  /\ ioFailures' = ioFailures + 1
  /\ ioq' = Tail(ioq)
  /\ IF Head(ioq).awaited
     THEN /\ pc' = "idle"
          /\ restoreResult' = "failed"
          /\ restoreData' = NoRestoreData
          /\ snackbar' = restoreFailedMessage
     ELSE UNCHANGED <<pc, restoreResult, restoreData, snackbar>>
  /\ UNCHANGED <<state, persisted, snapshots, currentState, migrationBackups, restores, call>>

\* ---------------------------------------------------- BackupRestoreScreen
\* handleManualImport lines 172-207 with importBackupFromText lines 276-300
ImportBackup ==
  /\ state.isInitialized
  /\ pc = "idle"
  /\ \E doc \in ImportDocs :
       IF validateBackupData(doc) # Valid
       THEN /\ snackbar' = validateBackupData(doc)
            /\ pc' = "message"
            /\ UNCHANGED <<state, persisted, ioq, snapshots, currentState, migrationBackups,
                           restoreData, restoreResult, ioFailures, restores, call>>
       ELSE /\ restoreData' = [present |-> TRUE, data |-> doc.appData]
            /\ pc' = "dialog"
            /\ snackbar' = Valid
            /\ UNCHANGED <<state, persisted, ioq, snapshots, currentState, migrationBackups,
                           restoreResult, ioFailures, restores, call>>

\* Snackbar onDismiss, line 616 (after 4 s, or when the user taps it)
DismissSnackbar ==
  /\ pc \in {"message", "idle"}
  /\ snackbar # Valid
  /\ pc' = "idle"
  /\ snackbar' = Valid
  /\ UNCHANGED <<state, persisted, ioq, snapshots, currentState, migrationBackups, restoreData,
                 restoreResult, ioFailures, restores, call>>

\* the Cancel button of the restore dialog, line 567. The screen keeps
\* restoreData, which nothing reads before the next import overwrites it:
\* here it is cleared
CancelRestore ==
  /\ pc = "dialog"
  /\ pc' = "idle"
  /\ restoreData' = NoRestoreData
  /\ UNCHANGED <<state, persisted, ioq, snapshots, currentState, migrationBackups,
                 restoreResult, snackbar, ioFailures, restores, call>>

\* confirmRestore lines 209-225
ConfirmRestore ==
  /\ pc = "dialog"
  /\ restoreData.present
  /\ restores < MaxRestores
  /\ restores' = restores + 1
  /\ pc' = "reading"
  /\ restoreResult' = "none"
  /\ UNCHANGED <<state, persisted, ioq, snapshots, currentState, migrationBackups, restoreData,
                 snackbar, ioFailures, call>>

\* restoreBackup lines 385-388 and confirmRestore lines 262-278
RestoreFailed ==
  /\ pc' = "idle"
  /\ restoreResult' = "failed"
  /\ restoreData' = NoRestoreData
  /\ snackbar' = restoreFailedMessage
  /\ ioFailures' = ioFailures + 1

\* restoreBackup line 348: getItem('globalStore'), served after the writes
\* queued before it
RestoreRead ==
  /\ pc = "reading"
  /\ ioq = <<>>
  /\ \/ /\ pc' = IF persisted.present THEN "snapshot" ELSE "replacing"
        /\ currentState' = persisted
        /\ UNCHANGED <<restoreResult, restoreData, snackbar, ioFailures>>
     \/ /\ ioFailures < MaxIoFailures
        /\ RestoreFailed
        /\ UNCHANGED currentState
  /\ UNCHANGED <<state, persisted, ioq, snapshots, migrationBackups, restores, call>>

\* restoreBackup lines 349-354: setItem(backupKey, currentState), after
\* which currentState is not read again
RestoreSnapshot ==
  /\ pc = "snapshot"
  /\ currentState' = NoBlob
  /\ \/ /\ snapshots' = snapshots + 1
        /\ pc' = "replacing"
        /\ UNCHANGED <<restoreResult, restoreData, snackbar, ioFailures>>
     \/ /\ ioFailures < MaxIoFailures
        /\ RestoreFailed
        /\ UNCHANGED snapshots
  /\ UNCHANGED <<state, persisted, ioq, migrationBackups, restores, call>>

\* restoreBackup lines 356-381: dispatch SET_ALL, then the awaited setItem,
\* queued before the write of the persist effect
RestoreReplace ==
  /\ pc = "replacing"
  /\ LET next == reducer(state, [type |-> "SET_ALL",
                                 payload |-> restoredState(restoreData.data)])
     IN  /\ state' = next
         /\ ioq' = ioq \o <<[blob |-> Blob(restoredState(restoreData.data)),
                             awaited |-> TRUE]>> \o Effect(next)
  /\ pc' = "saving"
  /\ UNCHANGED <<persisted, snapshots, currentState, migrationBackups, restoreData, restoreResult,
                 snackbar, ioFailures, restores, call>>

\* confirmRestore lines 229-259 with refreshData lines 180-190
RestoreRefresh ==
  /\ pc = "refreshing"
  /\ ioq = <<>>
  /\ IF persisted.present
     THEN Dispatch([type |-> "SET_ALL", payload |-> persisted.data])
     ELSE UNCHANGED <<state, ioq>>
  /\ pc' = "idle"
  /\ restoreData' = NoRestoreData
  /\ UNCHANGED <<persisted, snapshots, currentState, migrationBackups, restoreResult, snackbar,
                 ioFailures, restores, call>>

\* -------------------------------------------------------- SettingsScreen
\* handleResetConfirm lines 71-100: AsyncStorage.clear(), then SET_ALL
ResetApp ==
  /\ UserCanAct
  /\ ioq = <<>>
  /\ persisted' = NoBlob
  /\ snapshots' = 0
  /\ migrationBackups' = 0
  /\ Dispatch([type |-> "SET_ALL",
               payload |-> [workers |-> <<>>, categories |-> <<>>,
                            subcategories |-> <<>>, entries |-> <<>>,
                            payments |-> <<>>, isInitialized |-> TRUE]])
  /\ UNCHANGED <<currentState, snackbar, restoreData, pc, restoreResult, ioFailures,
                 restores, call>>


\* what AsyncStorage holds under 'globalStore' when the app is started:
\* nothing (first start), a store written before schemaVersion existed, or a
\* store written by this version
LegacyStore ==
  [ workers |-> <<Worker(1, 0)>>, categories |-> <<Category(1)>>,
    subcategories |-> <<Subcategory(1, FALSE, {}, 1)>>,
    entries |-> <<[ImportEntry(1, 1, 1) EXCEPT !.status = "Present"]>>,
    payments |-> <<Payment(1, 1, 1, 2, "")>>, deferredMessages |-> <<>>,
    schemaVersion |-> 0, isInitialized |-> TRUE ]

CurrentStore == restoredState(DocPlain.appData)

StoredAtStart == {NoBlob, Blob(LegacyStore), Blob(CurrentStore)}

Init ==
  /\ state = initialState
  /\ persisted \in StoredAtStart
  /\ ioq = <<>>
  /\ snapshots = 0
  /\ currentState = NoBlob
  /\ migrationBackups = 0
  /\ restoreData = NoRestoreData
  /\ pc = "idle"
  /\ restoreResult = "none"
  /\ snackbar = Valid
  /\ ioFailures = 0
  /\ restores = 0
  /\ call = NoCall

Next ==
  \/ LoadEmpty \/ LoadError \/ LoadCurrent \/ LoadMigrate
  \/ IoWriteOk \/ IoWriteFail
  \/ AddWorker \/ UpdateWorker \/ DeleteWorker
  \/ AddCategory \/ UpdateCategory \/ DeleteCategory
  \/ AddSubcategory \/ UpdateSubcategory \/ DeleteSubcategory
  \/ AddEntry \/ EditEntry \/ DeleteEntry
  \/ AddPayment \/ EditPayment \/ DeletePayment
  \/ ImportBackup \/ DismissSnackbar \/ CancelRestore \/ ConfirmRestore
  \/ RestoreRead \/ RestoreSnapshot \/ RestoreReplace \/ RestoreRefresh
  \/ ResetApp

Spec == Init /\ [][Next]_vars

\* ------------------------------------------------------- legacy stores
\* The migration on its own: the app is started on a store written before
\* schemaVersion existed, and the entries and payments it then holds are
\* edited and deleted.
\* a store whose entries and payments were written without an id
LegacyStoreWithoutIds ==
  [ LegacyStore EXCEPT
      !.entries = <<[ImportEntry(NoId, 1, 1) EXCEPT !.status = "Present"],
                    [ImportEntry(NoId, 1, 2) EXCEPT !.status = "Half"]>>,
      !.payments = <<Payment(NoId, 1, 1, 2, ""), Payment(NoId, 1, 2, 2, "Cash")>> ]

\* a store written before schemaVersion existed, or by this version after a
\* failed load (lines 164-177), with two messages waiting in the outbox
LegacyStoreWithOutbox ==
  [ LegacyStore EXCEPT !.deferredMessages = <<[id |-> 1], [id |-> 2]>> ]

LegacyStores == {LegacyStore, LegacyStoreWithoutIds, LegacyStoreWithOutbox}

InitMigration ==
  /\ state = initialState
  /\ persisted \in {Blob(st) : st \in LegacyStores}
  /\ ioq = <<>>
  /\ snapshots = 0
  /\ currentState = NoBlob
  /\ migrationBackups = 0
  /\ restoreData = NoRestoreData
  /\ pc = "idle"
  /\ restoreResult = "none"
  /\ snackbar = Valid
  /\ ioFailures = 0
  /\ restores = 0
  /\ call = NoCall

NextMigration ==
  \/ LoadMigrate
  \/ IoWriteOk \/ IoWriteFail
  \/ EditEntry \/ DeleteEntry
  \/ EditPayment \/ DeletePayment

SpecMigration == InitMigration /\ [][NextMigration]_vars

\* ================================================= calls of pure functions
\* The validators and the projections are functions of their arguments. They
\* are studied on their own: the program rests, and call holds the arguments
\* of one call and then its result.
MaxCallWorkers == 2
MaxCallDates == 2
MaxCallEntries == 2
MaxCallPayments == 1

CallWorkerIds == 1..MaxCallWorkers
CallDates == 1..MaxCallDates

ProgramAtRest ==
  /\ state = initialState
  /\ persisted = NoBlob
  /\ ioq = <<>>
  /\ snapshots = 0
  /\ currentState = NoBlob
  /\ migrationBackups = 0
  /\ restoreData = NoRestoreData
  /\ pc = "idle"
  /\ restoreResult = "none"
  /\ snackbar = Valid
  /\ ioFailures = 0
  /\ restores = 0

ProgramRests ==
  UNCHANGED <<state, persisted, ioq, snapshots, currentState, migrationBackups, restoreData, pc,
              restoreResult, snackbar, ioFailures, restores>>

Pending == "pending"

\* sequences of at most n members of S with pairwise different ids
SeqsById(S, n) ==
  UNION {{q \in [1..k -> S] : \A i, j \in 1..k : i # j => q[i].id # q[j].id}
           : k \in 0..n}

StoreOf(workers, subcategories, entries, payments) ==
  [ workers |-> workers, categories |-> <<Category(1), Category(2)>>,
    subcategories |-> subcategories, entries |-> entries, payments |-> payments,
    deferredMessages |-> <<>>, schemaVersion |-> 1, isInitialized |-> TRUE ]

\* ------------------------------------------------------------ validateEntry
\* the stores validateEntry is called with: entries as a restore or a save
\* leaves them (C1_OneEntryPerWorkerAndDate does not hold of every store)
StoredEntries ==
  {ImportEntry(id, w, d) : id \in 1..MaxCallEntries, w \in CallWorkerIds, d \in CallDates}

ValidateStores ==
  {StoreOf(<<Worker(1, 0), Worker(2, 0)>>, subs, es, <<>>) :
     subs \in {<<>>, <<Subcategory(1, TRUE, {1}, NoId)>>},
     es \in SeqsById(StoredEntries, MaxCallEntries)}

\* the workers a candidate may name: none, those of the store, and one the
\* store does not hold
CandidateWorkerIds == {NoId} \cup CallWorkerIds \cup {MaxCallWorkers + 1}

\* the candidates: every id, worker, date and status, a workType of A, B,
\* none or another value, with the remaining fields filled in or left out
\* together
Candidates ==
  {[id |-> id, workerId |-> w, date |-> d, status |-> st, workType |-> wt,
    categoryId |-> c, subcategoryId |-> c,
    workName |-> IF b THEN "dig" ELSE "", units |-> IF b THEN 1 ELSE 0,
    ratePerUnit |-> IF b THEN 2 ELSE 0, amount |-> a] :
     id \in 1..(MaxCallEntries + 1), w \in CandidateWorkerIds,
     d \in {NoDate} \cup CallDates, st \in {"P", "A", "H", "X"},
     wt \in {"A", "B", "", "C"}, c \in {NoId, 1}, b \in BOOLEAN, a \in {0, 2}}

\* the payments validatePayment is called with
PaymentCandidates ==
  {Payment(id, w, d, a, pt) :
     id \in 1..MaxCallPayments, w \in CandidateWorkerIds,
     d \in {NoDate} \cup CallDates, a \in {0, 2}, pt \in {"", "Cash"}}

InitValidate ==
  /\ ProgramAtRest
  /\ call \in [fn : {"validateEntry"}, entry : Candidates, store : ValidateStores,
               result : {Pending}]
             \cup [fn : {"validatePayment"}, payment : PaymentCandidates,
                   store : ValidateStores, result : {Pending}]

CallValidateEntry ==
  /\ call.fn = "validateEntry"
  /\ call.result = Pending
  /\ call' = [call EXCEPT !.result = validateEntry(call.entry, call.store)]
  /\ ProgramRests

\* PaymentScreen / EditPaymentModal: validatePayment(payment)
CallValidatePayment ==
  /\ call.fn = "validatePayment"
  /\ call.result = Pending
  /\ call' = [call EXCEPT !.result = validatePayment(call.payment)]
  /\ ProgramRests

NextValidate == CallValidateEntry \/ CallValidatePayment

SpecValidate == InitValidate /\ [][NextValidate]_vars

\* ------------------------------------- getWorkerBalance, ledgerTransactions
\* amounts are even, so that half of one is a whole number; an opening
\* balance is zero or large enough for sums above it to be rounded
LedgerAmounts == {2, 4}
OpeningBalances == {0, Pow2(SignificandBits)}

LedgerEntry(id, workerId, date, status, amount) ==
  [ImportEntry(id, workerId, date) EXCEPT !.status = status, !.amount = amount]

LedgerEntries ==
  {LedgerEntry(id, w, d, st, a) :
     id \in 1..MaxCallEntries, w \in CallWorkerIds, d \in CallDates,
     st \in {"P", "H", "A"}, a \in LedgerAmounts}

LedgerPayments ==
  {Payment(id, w, d, a, "Cash") :
     id \in 1..MaxCallPayments, w \in CallWorkerIds, d \in CallDates,
     a \in LedgerAmounts}

\* stores as the entry screen leaves them: one entry per worker and date
LedgerStores ==
  {StoreOf(<<Worker(1, ob), Worker(2, 0)>>, <<>>, es, ps) :
     ob \in OpeningBalances,
     es \in {q \in SeqsById(LedgerEntries, MaxCallEntries) :
               \A i, j \in DOMAIN q : i # j => ~(q[i].workerId = q[j].workerId
                                                   /\ q[i].date = q[j].date)},
     ps \in SeqsById(LedgerPayments, MaxCallPayments)}

NotComputed == [done |-> FALSE, value |-> 0]
NoLedger == [done |-> FALSE, value |-> <<>>]

InitLedger ==
  /\ ProgramAtRest
  /\ call \in [fn : {"ledger"}, workerId : {1}, store : LedgerStores,
               balance : {NotComputed}, ledger : {NoLedger}]

\* WorkerLedger / PaymentScreen: getWorkerBalance(workerId, state)
CallGetWorkerBalance ==
  /\ call.fn = "ledger"
  /\ ~call.balance.done
  /\ call' = [call EXCEPT !.balance =
                [done |-> TRUE, value |-> getWorkerBalance(call.workerId, call.store)]]
  /\ ProgramRests

\* LedgerScreen renders: ledgerTransactions of the selected worker
CallLedgerTransactions ==
  /\ call.fn = "ledger"
  /\ ~call.ledger.done
  /\ call' = [call EXCEPT !.ledger =
                [done |-> TRUE, value |-> ledgerTransactions(call.workerId, call.store)]]
  /\ ProgramRests

NextLedger == CallGetWorkerBalance \/ CallLedgerTransactions

SpecLedger == InitLedger /\ [][NextLedger]_vars

\* ------------------------------------- getBackupHistory, cleanupOldBackups
\* The instants at which a snapshot key is written: a day of January 2025 and
\* an hour of that day (UTC). Strings of digits are sequences of digits.
MaxDay == 2
SnapshotHours == {1, 23}
MaxKeys == 3
MaxKeepCount == 2

Instants == [day : 1..MaxDay, hour : SnapshotHours]

Earlier(i, j) == i.day < j.day \/ (i.day = j.day /\ i.hour < j.hour)

\* the decimal digits of a natural number
RECURSIVE Digits(_)
Digits(n) == IF n < 10 THEN <<n>> ELSE Append(Digits(n \div 10), n % 10)

TwoDigits(n) == <<n \div 10, n % 10>>

\* hours from 1970-01-01T00:00Z to 2025-01-01T00:00Z
HoursToJan2025 == 482136

\* String(Date.now()): milliseconds since 1970, 3600000 to the hour
DateNow(i) ==
  Digits((HoursToJan2025 + (i.day - 1) * 24 + i.hour) * 36) \o <<0, 0, 0, 0, 0>>

\* GlobalStore.js lines 84-86: `globalStore_backup_${Date.now()}`, as the
\* parts between its underscores
MigrationBackupKey(i) ==
  [type |-> "auto-backup", at |-> i, parts |-> <<"globalStore", "backup", DateNow(i)>>]

\* backupRestore.js lines 350-351: `globalStore_pre_restore_${timestamp}` with
\* timestamp = format(new Date(), 'yyyyMMdd_HHmmss')
PreRestoreKey(i) ==
  [type |-> "pre-restore", at |-> i,
   parts |-> <<"globalStore", "pre", "restore",
               <<2, 0, 2, 5, 0, 1>> \o TwoDigits(i.day),
               TwoDigits(i.hour) \o <<0, 0, 0, 0>>>>]

\* String.prototype.localeCompare on strings of digits: -1, 0 or 1
RECURSIVE localeCompare(_, _)
localeCompare(a, b) ==
  IF a = <<>> THEN (IF b = <<>> THEN 0 ELSE 0 - 1)
  ELSE IF b = <<>> THEN 1
  ELSE IF Head(a) < Head(b) THEN 0 - 1
  ELSE IF Head(a) > Head(b) THEN 1
  ELSE localeCompare(Tail(a), Tail(b))

\* getBackupHistory lines 406-415: key.split('_').pop()
HistoryRecord(key) ==
  [key |-> key, timestamp |-> key.parts[Len(key.parts)], type |-> key.type]

\* line 424: sort((a, b) => b.timestamp.localeCompare(a.timestamp)), a stable
\* sort: h goes behind the records whose timestamp is not smaller
RECURSIVE InsertNewestFirst(_, _)
InsertNewestFirst(sorted, h) ==
  IF sorted = <<>> THEN <<h>>
  ELSE IF localeCompare(h.timestamp, Head(sorted).timestamp) <= 0
       THEN <<Head(sorted)>> \o InsertNewestFirst(Tail(sorted), h)
       ELSE <<h>> \o sorted

RECURSIVE SortNewestFirst(_, _)
SortNewestFirst(sorted, s) ==
  IF s = <<>> THEN sorted
  ELSE SortNewestFirst(InsertNewestFirst(sorted, Head(s)), Tail(s))

\* getBackupHistory lines 395-429; keys: the keys of both prefixes in the
\* order of getAllKeys, each holding a parseable store
getBackupHistory(keys) ==
  SortNewestFirst(<<>>, [k \in DOMAIN keys |-> HistoryRecord(keys[k])])

\* cleanupOldBackups lines 436-447: the keys left once history.slice(keepCount)
\* is removed
cleanupOldBackups(keys, keepCount) ==
  LET history == getBackupHistory(keys)
      toDelete == {history[k].key : k \in (keepCount + 1)..Len(history)}
  IN  SelectSeq(keys, LAMBDA key : key \notin toDelete)

SnapshotKeys ==
  {MigrationBackupKey(i) : i \in Instants} \cup {PreRestoreKey(i) : i \in Instants}

\* what getAllKeys may return: different keys in any order
KeyLists ==
  UNION {{q \in [1..k -> SnapshotKeys] : \A i, j \in 1..k : i # j => q[i] # q[j]}
           : k \in 0..MaxKeys}

InitCleanup ==
  /\ ProgramAtRest
  /\ call \in [fn : {"cleanupOldBackups"}, keys : KeyLists,
               keepCount : 0..MaxKeepCount, done : {FALSE}]

\* BackupRestoreScreen.cleanupBackups: cleanupOldBackups(keepCount)
CallCleanupOldBackups ==
  /\ call.fn = "cleanupOldBackups"
  /\ ~call.done
  /\ call' = [call EXCEPT !.done = TRUE,
                          !.keys = cleanupOldBackups(call.keys, call.keepCount)]
  /\ ProgramRests

NextCleanup == CallCleanupOldBackups

SpecCleanup == InitCleanup /\ [][NextCleanup]_vars

\* -------------------------------------------------------- validateBackupData
\* the documents validateBackupData is called with: text that is no object,
\* and objects with every value of version, with and without appData, each
\* collection of appData a list or not, and the documents of ImportDocs
ShapesOfAppData == [CollectionNames -> {NotAnArray, Coll(<<>>)}]

CallDocs ==
  {NotADocument}
    \cup {[WellShaped(a) EXCEPT !.version = v, !.hasAppData = h] :
            a \in ShapesOfAppData, v \in VersionValues, h \in BOOLEAN}
    \cup ImportDocs

InitImport ==
  /\ ProgramAtRest
  /\ call \in [fn : {"importBackupFromText"}, doc : CallDocs, result : {Pending},
               restoreData : {NoRestoreData}]

\* handleManualImport lines 185-199 with importBackupFromText lines 276-300:
\* the validation result, and restoreData as the screen sets it
CallImportBackupFromText ==
  /\ call.fn = "importBackupFromText"
  /\ call.result = Pending
  /\ call' = [call EXCEPT
                !.result = validateBackupData(call.doc),
                !.restoreData =
                   IF validateBackupData(call.doc) = Valid
                   THEN [present |-> TRUE, data |-> call.doc.appData]
                   ELSE NoRestoreData]
  /\ ProgramRests

NextImport == CallImportBackupFromText

SpecImport == InitImport /\ [][NextImport]_vars

\* -------------------------------------------------------- AutoBackupManager
\* The interval timer of App.js with shouldBackup and performBackup. call
\* holds what the manager reads and keeps: the store, the switch, the token,
\* the network, the clock (in intervals since the timer was started), the
\* hash kept under 'lastDataHash', the store last pushed to the remote file,
\* the number of pushes and the reason of the last check.
\* Strings are sequences of character codes.
MaxChecks == 3

\* BACKUP_INTERVAL, in minutes
BackupIntervalMinutes == 3

CodesOf(digits) == [i \in DOMAIN digits |-> 48 + digits[i]]

\* new Date().toISOString() at the n-th interval after 2025-01-01T00:00Z
toISOString(n) ==
  <<50, 48, 50, 53, 45, 48, 49, 45, 48, 49, 84, 48, 48, 58>>
    \o CodesOf(TwoDigits(n * BackupIntervalMinutes))
    \o <<58, 48, 48, 46, 48, 48, 48, 90>>

\* createBackupData lines 23-49: the fields generateDataHash reads
createBackupData(st, now) ==
  [ version |-> "1.0", timestamp |-> toISOString(now),
    appData |-> [f \in CollectionNames |-> st[f]] ]

\* JSON.stringify of the object hashed, generateDataHash lines 103-109:
\* {"workers":n,"entries":n,"payments":n,"categories":n,"timestamp":"..."}
HashedText(data) ==
  <<123, 34, 119, 111, 114, 107, 101, 114, 115, 34, 58>>
    \o CodesOf(Digits(Len(data.appData.workers)))
    \o <<44, 34, 101, 110, 116, 114, 105, 101, 115, 34, 58>>
    \o CodesOf(Digits(Len(data.appData.entries)))
    \o <<44, 34, 112, 97, 121, 109, 101, 110, 116, 115, 34, 58>>
    \o CodesOf(Digits(Len(data.appData.payments)))
    \o <<44, 34, 99, 97, 116, 101, 103, 111, 114, 105, 101, 115, 34, 58>>
    \o CodesOf(Digits(Len(data.appData.categories)))
    \o <<44, 34, 116, 105, 109, 101, 115, 116, 97, 109, 112, 34, 58, 34>>
    \o data.timestamp
    \o <<34, 125>>

\* lines 112-116: hash = ((hash << 5) - hash) + char, kept to 32 bits. The
\* 32-bit integer is held as its two 16-bit halves
HashStep(hash, char) ==
  LET lo == hash.lo * 31 + char
      hi == hash.hi * 31 + lo \div 65536
  IN  [hi |-> hi % 65536, lo |-> lo % 65536]

\* the loop of lines 112-116 over str: the first half of str, then the
\* second half from the hash of the first
RECURSIVE HashFrom(_, _)
HashFrom(hash, str) ==
  IF str = <<>> THEN hash
  ELSE IF Len(str) = 1 THEN HashStep(hash, str[1])
  ELSE LET half == Len(str) \div 2
       IN  CHOOSE h \in {HashFrom(first, SubSeq(str, half + 1, Len(str))) :
                          first \in {HashFrom(hash, SubSeq(str, 1, half))}} : TRUE

\* generateDataHash lines 101-120 (hash.toString() is one string for each
\* 32-bit integer)
generateDataHash(data) == HashFrom([hi |-> 0, lo |-> 0], HashedText(data))

\* nothing stored under 'lastDataHash'
NoHash == [hi |-> 65536, lo |-> 65536]

\* shouldBackup lines 69-96; storageOk: the AsyncStorage reads succeed
shouldBackup(m, now, storageOk) ==
  IF ~storageOk THEN "error"
  ELSE IF ~m.enabled THEN "disabled"
  ELSE IF ~m.hasToken THEN "no_token"
  ELSE IF ~m.isConnected THEN "no_network"
  ELSE IF generateDataHash(createBackupData(m.store, now)) = m.lastHash
       THEN "no_changes"
  ELSE "ready"

AutoBackupStores ==
  { Initialized(initialState), CurrentStore, restoredState(DocTwoEntries.appData) }

InitAutoBackup ==
  /\ ProgramAtRest
  /\ call \in [fn : {"autoBackup"}, store : AutoBackupStores, enabled : BOOLEAN,
               hasToken : BOOLEAN, isConnected : BOOLEAN, now : {0},
               lastHash : {NoHash}, remote : {NoBlob}, backups : {0},
               reason : {"none"}]

\* the interval callback, App.js lines 201-219, with performBackup lines
\* 150-213: the PUT succeeds or fails
AutoBackupCheck ==
  /\ call.fn = "autoBackup"
  /\ call.now < MaxChecks
  /\ \E storageOk \in BOOLEAN, putOk \in BOOLEAN :
       LET now == call.now + 1
           reason == shouldBackup(call, now, storageOk)
       IN  call' =
             IF reason = "ready" /\ putOk
             THEN [call EXCEPT
                     !.now = now, !.reason = reason,
                     !.remote = Blob(call.store),
                     !.backups = call.backups + 1,
                     !.lastHash =
                        generateDataHash(createBackupData(call.store, now))]
             ELSE [call EXCEPT !.now = now, !.reason = reason]
  /\ ProgramRests

\* setEnabled lines 47-58
SetEnabled ==
  /\ call.fn = "autoBackup"
  /\ call' = [call EXCEPT !.enabled = ~call.enabled]
  /\ ProgramRests

\* NetInfo: the connection comes and goes
NetworkChanges ==
  /\ call.fn = "autoBackup"
  /\ call' = [call EXCEPT !.isConnected = ~call.isConnected]
  /\ ProgramRests

\* a dispatch changes the store the timer's callback is given
StoreChanges ==
  /\ call.fn = "autoBackup"
  /\ \E st \in AutoBackupStores \ {call.store} :
       call' = [call EXCEPT !.store = st]
  /\ ProgramRests

NextAutoBackup == AutoBackupCheck \/ SetEnabled \/ NetworkChanges \/ StoreChanges

SpecAutoBackup == InitAutoBackup /\ [][NextAutoBackup]_vars

\* --------------------------------------------- LedgerScreen: the list shown
\* LedgerScreen with its two memoized lists and its filters. call holds the
\* array ledgerTransactions refers to, the array filteredTransactions refers
\* to, and the filter state.
\* the lower-case texts of a transaction that the search looks into: the
\* payment type of a payment, and '-' (narration, names and work name are
\* empty in the records modelled)
TextsOf(trans) == IF trans.type = "payment" THEN {"cash", "-"} ELSE {"-"}

\* what can be typed in the search box, in lower case
SearchQueries == {"", "cash"}

Reverse(s) == [i \in DOMAIN s |-> s[Len(s) + 1 - i]]

\* filteredTransactions lines 125-157. Array.prototype.filter makes a new
\* array; Array.prototype.reverse reverses the array it is called on, in
\* place, and returns it: with no filter set that array is ledgerTransactions.
\* Gives the two arrays after the computation
FilterAndReverse(ledger, searchQuery, fromDate, toDate) ==
  LET bySearch == IF searchQuery # ""
                  THEN SelectSeq(ledger, LAMBDA trans : searchQuery \in TextsOf(trans))
                  ELSE ledger
      byFrom == IF fromDate # NoDate
                THEN SelectSeq(bySearch, LAMBDA trans : trans.date >= fromDate)
                ELSE bySearch
      byTo == IF toDate # NoDate
              THEN SelectSeq(byFrom, LAMBDA trans : trans.date <= toDate)
              ELSE byFrom
      sameArray == searchQuery = "" /\ fromDate = NoDate /\ toDate = NoDate
  IN  [ ledgerTransactions |-> IF sameArray THEN Reverse(ledger) ELSE ledger,
        filteredTransactions |-> Reverse(byTo) ]

\* stores of the ledger study in which worker 1 has an entry on each date
\* and a payment
LedgerViewStores ==
  {st \in LedgerStores :
     /\ st.workers[1].openingBalance = 0
     /\ Len(st.entries) = MaxCallEntries /\ Len(st.payments) = MaxCallPayments
     /\ \A i \in DOMAIN st.entries :
          /\ st.entries[i].workerId = 1 /\ st.entries[i].id = i
          /\ st.entries[i].status = "P"
     /\ \A i \in DOMAIN st.payments : st.payments[i].workerId = 1}

InitLedgerView ==
  /\ ProgramAtRest
  /\ call \in [fn : {"ledgerView"}, workerId : {1}, store : LedgerViewStores,
               shown : {FALSE}, ledgerTransactions : {<<>>},
               filteredTransactions : {<<>>}, searchQuery : {""},
               fromDate : {NoDate}, toDate : {NoDate}]

\* a render whose dependencies changed: filteredTransactions is computed again
Rendered(c) ==
  LET r == FilterAndReverse(c.ledgerTransactions, c.searchQuery, c.fromDate, c.toDate)
  IN  [c EXCEPT !.ledgerTransactions = r.ledgerTransactions,
                !.filteredTransactions = r.filteredTransactions]

\* the screen is opened: both lists are computed (lines 47-157)
OpenLedger ==
  /\ call.fn = "ledgerView"
  /\ ~call.shown
  /\ call' = Rendered([call EXCEPT
                         !.shown = TRUE,
                         !.ledgerTransactions =
                            ledgerTransactions(call.workerId, call.store)])
  /\ ProgramRests

\* the search box, line 369
SetSearchQuery ==
  /\ call.fn = "ledgerView"
  /\ call.shown
  /\ \E q \in SearchQueries \ {call.searchQuery} :
       call' = Rendered([call EXCEPT !.searchQuery = q])
  /\ ProgramRests

\* the date pickers, lines 430 and 443
SetFromDate ==
  /\ call.fn = "ledgerView"
  /\ call.shown
  /\ \E d \in CallDates \ {call.fromDate} :
       call' = Rendered([call EXCEPT !.fromDate = d])
  /\ ProgramRests

SetToDate ==
  /\ call.fn = "ledgerView"
  /\ call.shown
  /\ \E d \in CallDates \ {call.toDate} :
       call' = Rendered([call EXCEPT !.toDate = d])
  /\ ProgramRests

\* the Clear button, lines 394-403: one render after both dates are reset
ClearDates ==
  /\ call.fn = "ledgerView"
  /\ call.shown
  /\ call.fromDate # NoDate \/ call.toDate # NoDate
  /\ call' = Rendered([call EXCEPT !.fromDate = NoDate, !.toDate = NoDate])
  /\ ProgramRests

NextLedgerView ==
  OpenLedger \/ SetSearchQuery \/ SetFromDate \/ SetToDate \/ ClearDates

SpecLedgerView == InitLedgerView /\ [][NextLedgerView]_vars

\* ------------------------------------------- master screens: the names
\* WorkerMasterScreen and CategoryMasterScreen with the names of their
\* records. call.store holds the three collections, their records carrying
\* the name as the screens store it.
MaxMasters == 2

\* what is typed into a name field
FormNames == {"", " ", "Ravi", " ravi", "Mani"}

\* String.prototype.trim and toLowerCase on these texts
Trim(s) == CASE s = " " -> "" [] s = " ravi" -> "ravi" [] OTHER -> s

ToLowerCase(s) ==
  CASE s = "Ravi" -> "ravi" [] s = "Mani" -> "mani" [] OTHER -> s

\* what is typed into the opening balance field, and Number() of it
\* (NoNumber: NaN)
FormBalanceTexts == {"", "abc", "0"}
NoNumber == 0 - 1
NumberOf(text) == IF text = "0" THEN 0 ELSE NoNumber

\* no worker is being edited, no category, no subcategory
NotEditing == [id |-> NoId]

ErrWorkerName == "Worker name is required"
ErrBalanceRequired == "Opening balance is required"
ErrBalanceNumber == "Opening balance must be a valid number"
ErrWorkerExists == "Worker name already exists"
ErrCategoryName == "Category name is required"
ErrCategoryExists == "Category name already exists"
ErrSubcategoryName == "Subcategory name is required"
ErrSubcategoryExists ==
  "Subcategory name already exists in one of the selected categories"

\* a variant of validateForm below without the search for the same name
validateFormWithoutDuplicateCheck(form, editingWorker, workers) ==
  IF Trim(form.name) = "" THEN ErrWorkerName
  ELSE IF editingWorker = NotEditing /\ Trim(form.openingBalance) = ""
       THEN ErrBalanceRequired
  ELSE IF editingWorker = NotEditing /\ NumberOf(form.openingBalance) = NoNumber
       THEN ErrBalanceNumber
  ELSE Valid

\* WorkerMasterScreen.validateForm lines 17-43
validateForm(form, editingWorker, workers) ==
  IF Trim(form.name) = "" THEN ErrWorkerName
  ELSE IF editingWorker = NotEditing /\ Trim(form.openingBalance) = ""
       THEN ErrBalanceRequired
  ELSE IF editingWorker = NotEditing /\ NumberOf(form.openingBalance) = NoNumber
       THEN ErrBalanceNumber
  ELSE IF \E i \in DOMAIN workers :
            /\ Trim(ToLowerCase(workers[i].name)) = Trim(ToLowerCase(form.name))
            /\ (editingWorker = NotEditing \/ workers[i].id # editingWorker.id)
       THEN ErrWorkerExists
  ELSE Valid

\* CategoryMasterScreen.validateCategoryForm lines 20-38
validateCategoryForm(form, editingCategory, categories) ==
  IF Trim(form.category) = "" THEN ErrCategoryName
  ELSE IF \E i \in DOMAIN categories :
            /\ Trim(ToLowerCase(categories[i].category))
                 = Trim(ToLowerCase(form.category))
            /\ (editingCategory = NotEditing \/ categories[i].id # editingCategory.id)
       THEN ErrCategoryExists
  ELSE Valid

\* CategoryMasterScreen.validateSubcategoryForm lines 102-130, with the name
validateNamedSubcategoryForm(subForm, editingSubcategory, subcategories) ==
  IF Trim(subForm.subcategory) = "" THEN ErrSubcategoryName
  ELSE IF validateSubcategoryForm(subForm.categoryIds) # Valid
       THEN validateSubcategoryForm(subForm.categoryIds)
  ELSE IF \E i \in DOMAIN subcategories :
            /\ ~(editingSubcategory # NotEditing
                   /\ subcategories[i].id = editingSubcategory.id)
            /\ Trim(ToLowerCase(subcategories[i].subcategory))
                 = Trim(ToLowerCase(subForm.subcategory))
            /\ subcategories[i].categoryIds \cap subForm.categoryIds # {}
       THEN ErrSubcategoryExists
  ELSE Valid

FreeMasterIds(coll) == (1..MaxMasters) \ Ids(coll)

InitMasters ==
  /\ ProgramAtRest
  /\ call = [fn |-> "masters",
             store |-> [workers |-> <<>>, categories |-> <<>>, subcategories |-> <<>>]]

\* the store after dispatch(action) when the form passed, unchanged otherwise
MastersStep(result, action) ==
  /\ call' = IF result = Valid
             THEN [call EXCEPT !.store = reducer(call.store, action)]
             ELSE call
  /\ ProgramRests

\* WorkerMasterScreen.addWorker lines 45-66
AddNamedWorker ==
  /\ call.fn = "masters"
  /\ FreeMasterIds(call.store.workers) # {}
  /\ \E name \in FormNames, balance \in FormBalanceTexts :
       LET form == [name |-> name, openingBalance |-> balance]
       IN  MastersStep(validateForm(form, NotEditing, call.store.workers),
                       [type |-> "ADD_WORKER",
                        payload |-> [id |-> Least(FreeMasterIds(call.store.workers)),
                                     name |-> Trim(name),
                                     openingBalance |-> NumberOf(balance)]])

\* WorkerMasterScreen.updateWorker lines 68-88
UpdateNamedWorker ==
  /\ call.fn = "masters"
  /\ \E i \in DOMAIN call.store.workers, name \in FormNames :
       LET editingWorker == call.store.workers[i]
           form == [name |-> name, openingBalance |-> ""]
       IN  MastersStep(validateForm(form, editingWorker, call.store.workers),
                       [type |-> "UPDATE_WORKER",
                        payload |-> [editingWorker EXCEPT !.name = Trim(name)]])

\* CategoryMasterScreen.addCategory lines 40-57
AddNamedCategory ==
  /\ call.fn = "masters"
  /\ FreeMasterIds(call.store.categories) # {}
  /\ \E name \in FormNames :
       MastersStep(validateCategoryForm([category |-> name], NotEditing,
                                        call.store.categories),
                   [type |-> "ADD_CATEGORY",
                    payload |-> [id |-> Least(FreeMasterIds(call.store.categories)),
                                 category |-> Trim(name)]])

\* CategoryMasterScreen.updateCategory lines 59-76
UpdateNamedCategory ==
  /\ call.fn = "masters"
  /\ \E i \in DOMAIN call.store.categories, name \in FormNames :
       LET editingCategory == call.store.categories[i]
       IN  MastersStep(validateCategoryForm([category |-> name], editingCategory,
                                            call.store.categories),
                       [type |-> "UPDATE_CATEGORY",
                        payload |-> [editingCategory EXCEPT !.category = Trim(name)]])

\* CategoryMasterScreen.deleteCategory lines 78-94
DeleteNamedCategory ==
  /\ call.fn = "masters"
  /\ \E c \in Ids(call.store.categories) :
       MastersStep(Valid, [type |-> "DELETE_CATEGORY", payload |-> c])

\* CategoryMasterScreen.addSubcategory lines 132-151
AddNamedSubcategory ==
  /\ call.fn = "masters"
  /\ FreeMasterIds(call.store.subcategories) # {}
  /\ \E name \in FormNames, cids \in SUBSET Ids(call.store.categories) :
       LET subForm == [subcategory |-> name, categoryIds |-> cids]
       IN  MastersStep(validateNamedSubcategoryForm(subForm, NotEditing,
                                                    call.store.subcategories),
                       [type |-> "ADD_SUBCATEGORY",
                        payload |->
                          [id |-> Least(FreeMasterIds(call.store.subcategories)),
                           isArr |-> TRUE, categoryIds |-> cids, categoryId |-> NoId,
                           subcategory |-> Trim(name)]])

\* CategoryMasterScreen.updateSubcategory lines 153-172
UpdateNamedSubcategory ==
  /\ call.fn = "masters"
  /\ \E i \in DOMAIN call.store.subcategories, name \in FormNames,
        cids \in SUBSET Ids(call.store.categories) :
       LET editingSubcategory == call.store.subcategories[i]
           subForm == [subcategory |-> name, categoryIds |-> cids]
       IN  MastersStep(validateNamedSubcategoryForm(subForm, editingSubcategory,
                                                    call.store.subcategories),
                       [type |-> "UPDATE_SUBCATEGORY",
                        payload |-> [editingSubcategory EXCEPT
                                       !.subcategory = Trim(name),
                                       !.categoryIds = cids]])

NextMasters ==
  \/ AddNamedWorker \/ UpdateNamedWorker
  \/ AddNamedCategory \/ UpdateNamedCategory \/ DeleteNamedCategory
  \/ AddNamedSubcategory \/ UpdateNamedSubcategory

SpecMasters == InitMasters /\ [][NextMasters]_vars

\* ======================================================== the store's rules
SameAttendance(e1, e2) == e1.workerId = e2.workerId /\ e1.date = e2.date

\* C1: in every reachable state of the live store there is at most one Entry
\* for any (workerId, date) pair
C1_OneEntryPerWorkerAndDate ==
  \A i, j \in DOMAIN state.entries :
    i # j => ~SameAttendance(state.entries[i], state.entries[j])

DeleteCategoryAction(c) == [type |-> "DELETE_CATEGORY", payload |-> c]

\* the categories a subcategory is associated with, by either field
CategoriesOf(s) ==
  (IF s.isArr THEN s.categoryIds ELSE {})
    \cup (IF s.categoryId # NoId THEN {s.categoryId} ELSE {})

SubById(st, id) == CHOOSE s \in Range(st.subcategories) : s.id = id

\* what C5 asks of one DELETE_CATEGORY(c) step from before to after
CascadeDone(c, before, after) ==
  /\ c \notin Ids(after.categories)
  /\ \A s \in Range(after.subcategories) : c \notin CategoriesOf(s)
  /\ \A s \in Range(before.subcategories) :
       IF CategoriesOf(s) \subseteq {c}
       THEN s.id \notin Ids(after.subcategories)
       ELSE /\ s.id \in Ids(after.subcategories)
            /\ CategoriesOf(SubById(after, s.id)) = CategoriesOf(s) \ {c}

\* C5: DELETE_CATEGORY(c), applied in one reducer step to any reachable store,
\* removes c, leaves no Subcategory referring to c, removes every Subcategory
\* whose only category was c and keeps every other Subcategory with exactly
\* its other categories
C5_DeleteCategoryCascades ==
  \A c \in Ids(state.categories) :
    CascadeDone(c, state, reducer(state, DeleteCategoryAction(c)))

NoOrphans(st) ==
  /\ \A e \in Range(st.entries) : e.workerId \in Ids(st.workers)
  /\ \A p \in Range(st.payments) : p.workerId \in Ids(st.workers)

\* C6: in every reachable state every Entry and every Payment refers to a
\* Worker of the store; after deleteWorker(w) none with workerId w remains
C6_EveryTransactionHasItsWorker == NoOrphans(state)

CategoryBased(e) == e.status # "A" /\ e.workType \in {"A", ""}

EntryMappingsHold(st) ==
  \A e \in Range(st.entries) :
    CategoryBased(e) =>
      \E s \in Range(st.subcategories) :
        s.id = e.subcategoryId /\ s.isArr /\ e.categoryId \in s.categoryIds

\* C7: for every non-Absent CategoryBased Entry the Subcategory it names
\* exists and lists the Entry's categoryId, and a handler of the master
\* screens (deleteCategory, deleteSubcategory, updateSubcategory) applied to a
\* loaded store where this holds leaves it holding
C7_HandlersKeepEntryMappings ==
  [][(state.isInitialized /\ pc = "idle" /\ pc' = "idle"
        /\ EntryMappingsHold(state)) => EntryMappingsHold(state')]_vars

\* ============================================================ import, restore
AllArrays(appData) == \A f \in CollectionNames : appData[f].isArray

RestoreUnderWay == pc \in {"dialog", "reading", "snapshot", "replacing", "saving"}

\* C8: an imported document that fails the shape validation is refused, and
\* the step that refuses it leaves the live store, the persisted primary blob
\* and the pre-restore snapshot keys as they were; no restore is offered or
\* run for a document whose collections are not all lists
C8_RefusedImportChangesNothing ==
  /\ [](RestoreUnderWay => restoreData.present /\ AllArrays(restoreData.data))
  /\ [][(pc' = "message" /\ pc # "message") =>
          /\ state' = state
          /\ persisted' = persisted
          /\ ioq' = ioq
          /\ snapshots' = snapshots
          /\ restoreData' = restoreData]_vars

\* C8 happens: a document has just been refused while the store holds data
C8_Witness ==
  /\ pc = "message"
  /\ snackbar # Valid
  /\ state.workers # <<>>
  /\ persisted.present

\* C9: the restore reaches the replacing step only through the step that
\* writes the pre-restore snapshot key
C9_ReplacingOnlyAfterSnapshot ==
  [][(pc' = "replacing" /\ pc # "replacing") => snapshots' = snapshots + 1]_vars

Matches(st, appData) ==
  /\ \A f \in CollectionNames : st[f] = appData[f].items
  /\ st.schemaVersion = 1

\* C10: when restoreBackup returns success, and again when the refresh that
\* follows it is done, each of the five collections of the live store is the
\* imported one and schemaVersion is 1
C10_RestoreReplacesWholesale ==
  [][((pc = "saving" /\ pc' = "refreshing") \/ (pc = "refreshing" /\ pc' = "idle"))
       => Matches(state', restoreData.data)]_vars

\* C10 happens: a restore over a store that held other data has succeeded
C10_Witness ==
  /\ pc = "idle"
  /\ restoreResult = "success"
  /\ snapshots > 0
  /\ Len(state.entries) = 2

\* ======================================================= validators, balance
PassesFieldChecks(e) ==
  e.workerId # NoId /\ e.date # NoDate /\ e.status \in {"P", "A", "H"}

\* the store holds an Entry of another id for the candidate's worker and date
Clashes(e, st) == \E x \in Range(st.entries) : x.id # e.id /\ SameAttendance(x, e)

\* C2: validateEntry rejects every candidate for which the store holds an
\* Entry of a different id with the same workerId and date (the reason it
\* gives is the duplicate-attendance one whenever the candidate has a worker,
\* a date and a status of P, A or H and is valid in every other respect)
C2_ClashingCandidateIsRejected ==
  (call.fn = "validateEntry" /\ call.result # Pending
     /\ Clashes(call.entry, call.store))
    => /\ call.result # Valid
       /\ (PassesFieldChecks(call.entry)
             /\ validateEntry(call.entry, [call.store EXCEPT !.entries = <<>>]) = Valid)
            => call.result = ErrDuplicate

LedgerComputed == call.fn = "ledger" /\ call.balance.done /\ call.ledger.done

\* C3: for a worker with at least one transaction, balanceAfter of the last
\* record of the ledger equals getWorkerBalance on the same store
C3_LedgerEndsAtBalance ==
  (LedgerComputed /\ call.ledger.value # <<>>) =>
    call.ledger.value[Len(call.ledger.value)].balanceAfter = call.balance.value

\* full amount for Present, half for Half, nothing for Absent
Weighted(e) ==
  CASE e.status = "P" -> e.amount
    [] e.status = "H" -> e.amount \div 2
    [] OTHER -> 0

\* the sum of the numbers of ns, from the first on
RECURSIVE Total(_)
Total(ns) ==
  IF ns = <<>> THEN 0
  ELSE NumAdd(Total(SubSeq(ns, 1, Len(ns) - 1)), ns[Len(ns)])

OpeningOf(w, st) ==
  LET ws == SelectSeq(st.workers, LAMBDA x : x.id = w)
  IN  IF ws = <<>> THEN 0 ELSE ws[1].openingBalance

\* the store without the entries and payments of workers other than w
OnlyOf(w, st) ==
  [st EXCEPT !.entries = SelectSeq(st.entries, LAMBDA e : e.workerId = w),
             !.payments = SelectSeq(st.payments, LAMBDA p : p.workerId = w)]

\* opening 1000, Present 500, Half 400, payment 300
ExampleStore ==
  StoreOf(<<Worker(1, 1000)>>, <<>>,
          <<LedgerEntry(1, 1, 1, "P", 500), LedgerEntry(2, 1, 2, "H", 400)>>,
          <<Payment(1, 1, 3, 300, "Cash")>>)

\* C4: getWorkerBalance is the worker's openingBalance plus the weighted
\* amounts of the worker's entries minus the worker's payments; what other
\* workers have does not change it; the example gives 1400
C4_BalanceFormula ==
  (call.fn = "ledger" /\ call.balance.done) =>
    LET w == call.workerId
        st == call.store
    IN  /\ call.balance.value =
             NumSub(NumAdd(OpeningOf(w, st),
                           Total([i \in DOMAIN OnlyOf(w, st).entries |->
                                    Weighted(OnlyOf(w, st).entries[i])])),
                    Total([i \in DOMAIN OnlyOf(w, st).payments |->
                             OnlyOf(w, st).payments[i].amount]))
        /\ call.balance.value = getWorkerBalance(w, OnlyOf(w, st))
        /\ getWorkerBalance(1, ExampleStore) = 1400

\* C4 happens: a balance was computed over a Half entry and a payment of the
\* worker, next to an entry of another worker
C4_Witness ==
  /\ call.fn = "ledger"
  /\ call.balance.done
  /\ \E e \in Range(call.store.entries) : e.workerId = call.workerId /\ e.status = "H"
  /\ \E e \in Range(call.store.entries) : e.workerId # call.workerId /\ e.status = "P"
  /\ \E p \in Range(call.store.payments) : p.workerId = call.workerId

\* ============================================================ restore result
\* the imported data has an entry that validateAndRecalculateBalances reports
HasIntegrityIssues(data) ==
  \E w \in Range(data.workers.items), e \in Range(data.entries.items) :
    /\ e.workerId = w.id /\ e.status # "A"
    /\ \/ e.workType = "A" /\ (e.categoryId = NoId \/ e.subcategoryId = NoId)
       \/ e.workType = "B" /\ (e.workName = "" \/ e.units = 0 \/ e.ratePerUnit = 0)

\* C11 as stated: once a document has passed the shape check, no restore of
\* it ends as a failure
C11_RestoreAlwaysSucceeds == restoreResult # "failed"

\* C11 amended: a restore ends as a failure only in a step in which an
\* AsyncStorage call of restoreBackup fails; when restoreBackup returns
\* success the screen reports success, with a note exactly when the imported
\* data has integrity issues, and never a failure
C11_RestoreFailsOnlyOnStorageFailure ==
  [][ /\ (restoreResult' = "failed" /\ restoreResult # "failed")
          => ioFailures' = ioFailures + 1
      /\ (pc = "saving" /\ pc' = "refreshing")
          => /\ restoreResult' = "success"
             /\ snackbar' # restoreFailedMessage
             /\ IF HasIntegrityIssues(restoreData.data)
                THEN snackbar' = "Backup restored successfully! Note: 1 data integrity issues found."
                ELSE snackbar' = "Backup restored successfully!" ]_vars

\* C11 happens: a document with an integrity issue has been restored with
\* success and the note is shown
C11_Witness ==
  /\ restoreResult = "success"
  /\ snackbar = "Backup restored successfully! Note: 1 data integrity issues found."
  /\ Len(state.entries) = 1 /\ state.entries[1].workType = "B"

\* ================================================================== loading
\* the store that the load effect builds from a Current blob
LoadedFrom(blob) ==
  reducer(initialState, [type |-> "SET_ALL", payload |-> Initialized(blob.data)])

IsCurrent(blob) == blob.present /\ blob.data.schemaVersion >= 1

\* a step in which the load effect loads a Current blob
LoadsCurrent ==
  /\ ~state.isInitialized /\ state'.isInitialized
  /\ IsCurrent(persisted)
  /\ ioFailures' = ioFailures

SameCollections(a, b) ==
  /\ a.workers = b.workers /\ a.categories = b.categories
  /\ a.subcategories = b.subcategories
  /\ a.entries = b.entries /\ a.payments = b.payments

\* C12: loading a Current blob writes no backup key and transforms nothing:
\* the store is the blob's data, the only write queued is the blob itself,
\* and every Current blob the program persists loads into a store whose
\* blob is that blob again and loads into the same store a second time
C12_LoadingCurrentIsNoOp ==
  /\ [](IsCurrent(persisted)
          => /\ SameCollections(LoadedFrom(persisted), persisted.data)
             /\ Blob(LoadedFrom(persisted)) = persisted
             /\ LoadedFrom(Blob(LoadedFrom(persisted))) = LoadedFrom(persisted))
  /\ [][LoadsCurrent
          => /\ migrationBackups' = migrationBackups
             /\ persisted' = persisted
             /\ state' = LoadedFrom(persisted)
             /\ ioq' = <<[blob |-> persisted, awaited |-> FALSE]>>]_vars

\* C12 happens: a Current blob has been loaded and written back
C12_Witness ==
  /\ state = CurrentStore
  /\ persisted = Blob(CurrentStore)
  /\ ioq = <<>>
  /\ restores = 0 /\ migrationBackups = 0 /\ ioFailures = 0

\* ---------------------------------------------------------------- migration
\* the canonical shape of the collections: status codes P, H, A, a payment
\* type, categoryIds as a list and no scalar categoryId
Canonical(st) ==
  /\ \A e \in Range(st.entries) : e.status \in {"P", "H", "A"} /\ e.id # NoId
  /\ \A p \in Range(st.payments) : p.paymentType # "" /\ p.id # NoId
  /\ \A s \in Range(st.subcategories) : s.isArr /\ s.categoryId = NoId

\* a step in which the load effect finds an Unversioned blob
LoadsUnversioned ==
  /\ ~state.isInitialized /\ state'.isInitialized
  /\ persisted.present /\ persisted.data.schemaVersion < 1

C14_StoreIsCanonical == state.isInitialized => Canonical(state)

\* C15: the blob that replaces a persisted blob of schemaVersion >= 1 carries
\* schemaVersion >= 1 as well
C15_SchemaVersionNeverDecreases ==
  [][(IsCurrent(persisted) /\ persisted'.present)
       => persisted'.data.schemaVersion >= 1]_vars

\* ================================================================ retention
\* C16: after cleanupOldBackups(N) the keys left are the N chronologically
\* most recent ones (all of them if there were fewer): no key that was
\* removed is more recent than a key that was kept
C16_CleanupKeepsMostRecent ==
  [][(call.fn = "cleanupOldBackups" /\ ~call.done /\ call'.done)
       => LET kept == Range(call'.keys)
              removed == Range(call.keys) \ kept
          IN  /\ kept \subseteq Range(call.keys)
              /\ Cardinality(kept)
                   = IF Len(call.keys) < call.keepCount THEN Len(call.keys)
                     ELSE call.keepCount
              /\ \A k \in kept, r \in removed : ~Earlier(k.at, r.at)]_vars

\* ====================================================== rejected mutations
\* a step of a handler of one of the screens (or of AsyncStorage) while no
\* load or restore is under way
HandlerStep == state.isInitialized /\ pc = "idle" /\ pc' = "idle"

\* C17: a handler changes the store only by a candidate its validator
\* accepts: every Entry that an add or an edit puts into the store passes
\* validateEntry against the store before the step, and every Payment passes
\* validatePayment; an attempt whose candidate is rejected leaves the store
\* as it was
C17_RejectedCandidateChangesNothing ==
  [][HandlerStep
      => /\ \A e \in Range(state'.entries) \ Range(state.entries) :
              validateEntry(e, state) = Valid
         /\ \A p \in Range(state'.payments) \ Range(state.payments) :
              validatePayment(p) = Valid]_vars

\* C17 happens: the entry screen can be asked to add a second entry for a
\* worker and date, which validateEntry rejects, and the payment screen to
\* add a payment without an amount
C17_Witness ==
  /\ UserCanAct
  /\ FreeEntryIds(state) # {}
  /\ \E f \in EntryForms(state, Ids(state.workers)) :
       /\ FormPreCheck(f) = Valid
       /\ validateEntry(EntryFromForm(Least(FreeEntryIds(state)), f.worker, f), state)
            = ErrDuplicate
  /\ FreePaymentIds(state) # {}
  /\ \E w \in Ids(state.workers) :
       validatePayment(Payment(Least(FreePaymentIds(state)), w, 1, 0, "Cash"))
         = ErrPaymentAmount

\* =============================================================== validators
Returned == call.fn \in {"validateEntry", "validatePayment"} /\ call.result # Pending

CandidateOf(c) == IF c.fn = "validateEntry" THEN c.entry ELSE c.payment

\* C18: validateEntry and validatePayment reject every candidate whose
\* workerId is not the id of a Worker of the store
C18_UnknownWorkerIsRejected ==
  (Returned /\ CandidateOf(call).workerId \notin Ids(call.store.workers))
    => call.result # Valid

\* the fields of a CategoryBased entry are in order: category and subcategory
\* set, the subcategory in the store and associated with the category
CategoryFieldsInOrder(e, st) ==
  /\ e.categoryId # NoId /\ e.subcategoryId # NoId
  /\ \E s \in Range(st.subcategories) :
       s.id = e.subcategoryId /\ e.categoryId \in CategoriesOf(s)

\* the fields of a UnitBased entry are in order
UnitFieldsInOrder(e) == e.workName # "" /\ e.units > 0 /\ e.ratePerUnit > 0

\* C19: a candidate that is not Absent is accepted by validateEntry only if
\* its amount is positive and its CategoryBased fields or its UnitBased
\* fields are in order, whatever its workType; an Absent candidate with a
\* worker and a date that clashes with no other entry is accepted whatever
\* these fields hold
C19_AcceptedEntryHasItsFields ==
  (call.fn = "validateEntry" /\ call.result # Pending)
    => /\ (call.entry.status # "A" /\ call.result = Valid)
            => /\ call.entry.amount > 0
               /\ \/ CategoryFieldsInOrder(call.entry, call.store)
                  \/ UnitFieldsInOrder(call.entry)
       /\ (call.entry.status = "A" /\ PassesFieldChecks(call.entry)
             /\ ~Clashes(call.entry, call.store))
            => call.result = Valid

\* ============================================================== shape check
Imported == call.fn = "importBackupFromText" /\ call.result # Pending

ListsPresent(doc) == \A f \in CollectionNames : doc.appData[f].isArray

\* C20 as stated: a document is accepted exactly when it is an object with
\* version present, appData present and the five collections present as lists
C20_AcceptedIffWellShaped ==
  Imported
    => (call.result = Valid
          <=> /\ call.doc.isObject
              /\ call.doc.version # NoVersion
              /\ call.doc.hasAppData
              /\ ListsPresent(call.doc))

\* C20 amended: a document is accepted exactly when it is an object with a
\* version that is present and not empty, appData present and the five
\* collections present as lists; for every other document the screen keeps
\* no restoreData, so restoreBackup cannot be invoked on it
C20_AcceptedIffShapedAndVersioned ==
  Imported
    => /\ call.result = Valid
            <=> /\ call.doc.isObject
                /\ call.doc.version \notin {NoVersion, ""}
                /\ call.doc.hasAppData
                /\ ListsPresent(call.doc)
       /\ call.restoreData.present <=> call.result = Valid
       /\ call.restoreData.present => call.restoreData.data = call.doc.appData

\* C20 happens: a document has been accepted with an empty list among its
\* collections
C20_Witness ==
  /\ Imported
  /\ call.result = Valid
  /\ call.restoreData.present
  /\ call.doc.appData.entries = Coll(<<>>)

\* ============================================================== concurrency
\* C21: no two writes of 'globalStore' are in flight together, and when no
\* write is pending and none has failed the blob stored is the live store
C21_NoTwoWritesInFlight ==
  /\ Len(ioq) <= 1
  /\ (ioq = <<>> /\ state.isInitialized /\ ioFailures = 0)
       => persisted = Blob(state)

\* C22: the pre-restore snapshot written at the start of a restore holds the
\* live store as it is when the snapshot is written
C22_SnapshotIsLiveStore ==
  [][snapshots' = snapshots + 1 => currentState = Blob(state)]_vars

\* ============================================================== identifiers
\* the records of s that have an id have different ones
Distinct(s) ==
  \A i \in DOMAIN s, j \in DOMAIN s :
    (s[i].id # NoId /\ s[i].id = s[j].id) => i = j

\* C23: in every state of the loaded store, no two records of a collection
\* share an id
C23_IdsAreUnique ==
  state.isInitialized => \A f \in CollectionNames : Distinct(state[f])

\* ============================================================== auto-backup
\* C24: an interval check made with auto-backup enabled, a token set and the
\* network up, while the store is the one the last successful backup pushed,
\* pushes nothing and is skipped with reason no_changes (or fails to read its
\* keys)
C24_UnchangedStoreIsNotPushedAgain ==
  [][(/\ call.fn = "autoBackup"
      /\ call'.now = call.now + 1
      /\ call.enabled /\ call.hasToken /\ call.isConnected
      /\ call.remote = Blob(call.store))
       => /\ call'.backups = call.backups
          /\ call'.reason \in {"no_changes", "error"}]_vars

\* ========================================================== the list shown
LatestFirst(s) == \A i \in DOMAIN s, j \in DOMAIN s : i < j => s[i].date >= s[j].date

\* C25: whatever the filters were set to, the list shown is latest-first, and
\* the chronological list it is made from is still the ledger of the worker,
\* in the same order and with the same balanceAfter values
C25_ShownLatestFirstLedgerUntouched ==
  (call.fn = "ledgerView" /\ call.shown)
    => /\ LatestFirst(call.filteredTransactions)
       /\ call.ledgerTransactions = ledgerTransactions(call.workerId, call.store)

\* ==================================================================== names
\* a name as the screens compare it: trimmed, in lower case
NameKey(name) == Trim(ToLowerCase(name))

\* C26: in the master screens' store no two workers have the same name, no
\* two categories have the same name (trimmed, whatever the case), and no
\* two subcategories of the same name have a category in common
C26_NamesAreUnique ==
  call.fn = "masters" =>
    /\ \A i, j \in DOMAIN call.store.workers :
         NameKey(call.store.workers[i].name) = NameKey(call.store.workers[j].name)
           => i = j
    /\ \A i, j \in DOMAIN call.store.categories :
         NameKey(call.store.categories[i].category)
           = NameKey(call.store.categories[j].category) => i = j
    /\ \A i, j \in DOMAIN call.store.subcategories :
         (/\ i # j
          /\ NameKey(call.store.subcategories[i].subcategory)
               = NameKey(call.store.subcategories[j].subcategory))
           => call.store.subcategories[i].categoryIds
                \cap call.store.subcategories[j].categoryIds = {}

\* C26 happens: two workers, two categories, and two subcategories of one
\* name, each in a category of its own
C26_Witness ==
  /\ call.fn = "masters"
  /\ Len(call.store.workers) = 2
  /\ Len(call.store.categories) = 2
  /\ Len(call.store.subcategories) = 2
  /\ NameKey(call.store.subcategories[1].subcategory)
       = NameKey(call.store.subcategories[2].subcategory)

\* ------------------------------------------------ the balance computations
\* balance.js lines 1-17: the opening balance, plus every entry amount, less
\* every payment amount, added one at a time
RECURSIVE AddAmounts(_, _)
AddAmounts(items, bal) ==
  IF items = <<>> THEN bal
  ELSE AddAmounts(Tail(items), NumAdd(bal, Head(items).amount))

RECURSIVE SubtractAmounts(_, _)
SubtractAmounts(items, bal) ==
  IF items = <<>> THEN bal
  ELSE SubtractAmounts(Tail(items), NumSub(bal, Head(items).amount))

computeBalance(worker, entries, payments) ==
  SubtractAmounts(payments, AddAmounts(entries, worker.openingBalance))

\* themes.js line 254: the dates of the entries and payments, oldest first
RECURSIVE SortedDates(_)
SortedDates(dates) ==
  IF dates = {} THEN <<>>
  ELSE LET first == CHOOSE d \in dates : \A other \in dates : d <= other
       IN  <<first>> \o SortedDates(dates \ {first})

\* themes.js lines 278-289: one day after another, the running balance
RECURSIVE DayWiseClosing(_, _, _, _)
DayWiseClosing(sortedDates, entries, payments, runningBalance) ==
  IF sortedDates = <<>> THEN runningBalance
  ELSE LET date == Head(sortedDates)
           dayEntries == SelectSeq(entries, LAMBDA e : e.date = date)
           dayPayments == SelectSeq(payments, LAMBDA p : p.date = date)
           dayEarnings == AddAmounts(dayEntries, 0)
           dayPaymentTotal == AddAmounts(dayPayments, 0)
           closingBalance == NumSub(NumAdd(runningBalance, dayEarnings),
                                    dayPaymentTotal)
       IN  DayWiseClosing(Tail(sortedDates), entries, payments, closingBalance)

\* themes.js lines 246-320: the closingBalance of the breakdown that
\* generateWorkerReport (lines 157-180) asks for, of a store st
generateDayWiseBreakdown(workerId, entries, payments, fromDate, st) ==
  LET allDates == {entries[i].date : i \in DOMAIN entries}
                    \cup {payments[i].date : i \in DOMAIN payments}
      allWorkerEntries == SelectSeq(st.entries, LAMBDA e : e.workerId = workerId)
      allWorkerPayments == SelectSeq(st.payments, LAMBDA p : p.workerId = workerId)
      earningsBeforeRange ==
        AddAmounts(SelectSeq(allWorkerEntries, LAMBDA e : e.date < fromDate), 0)
      paymentsBeforeRange ==
        AddAmounts(SelectSeq(allWorkerPayments, LAMBDA p : p.date < fromDate), 0)
      runningBalance == IF fromDate = NoDate THEN 0
                        ELSE NumSub(earningsBeforeRange, paymentsBeforeRange)
  IN  DayWiseClosing(SortedDates(allDates), entries, payments, runningBalance)

\* the entries, the payments of one worker, as every caller selects them
EntriesOfWorker(workerId, st) == SelectSeq(st.entries, LAMBDA e : e.workerId = workerId)
PaymentsOfWorker(workerId, st) == SelectSeq(st.payments, LAMBDA p : p.workerId = workerId)

InitBalances ==
  /\ ProgramAtRest
  /\ call \in [fn : {"balances"}, workerId : {1}, store : LedgerStores,
               computed : {NotComputed}, balance : {NotComputed},
               closing : {NotComputed}]

\* computeBalance(worker, the worker's entries, the worker's payments)
CallComputeBalance ==
  /\ call.fn = "balances"
  /\ ~call.computed.done
  /\ LET st == call.store
         worker == st.workers[FindIndex([k \in DOMAIN st.workers |->
                                           st.workers[k].id = call.workerId])]
     IN  call' = [call EXCEPT !.computed =
                    [done |-> TRUE,
                     value |-> computeBalance(worker,
                                              EntriesOfWorker(call.workerId, st),
                                              PaymentsOfWorker(call.workerId, st))]]
  /\ ProgramRests

\* getWorkerBalance(workerId, store)
CallBalanceOfWorker ==
  /\ call.fn = "balances"
  /\ ~call.balance.done
  /\ call' = [call EXCEPT !.balance =
                [done |-> TRUE, value |-> getWorkerBalance(call.workerId, call.store)]]
  /\ ProgramRests

\* generateWorkerReport without a date range: the closing balance of the
\* day-wise breakdown
CallDayWiseBreakdown ==
  /\ call.fn = "balances"
  /\ ~call.closing.done
  /\ LET st == call.store
     IN  call' = [call EXCEPT !.closing =
                    [done |-> TRUE,
                     value |-> generateDayWiseBreakdown(
                                 call.workerId, EntriesOfWorker(call.workerId, st),
                                 PaymentsOfWorker(call.workerId, st), NoDate, st)]]
  /\ ProgramRests

NextBalances == CallComputeBalance \/ CallBalanceOfWorker \/ CallDayWiseBreakdown

SpecBalances == InitBalances /\ [][NextBalances]_vars

\* C27: every balance computation agrees: computeBalance of a worker with that
\* worker's entries and payments equals getWorkerBalance of the worker over the
\* store, and so does the closing balance of the export's day-wise breakdown
\* over the full date range.
C27_BalancesAgree ==
  call.fn = "balances" =>
    /\ (call.computed.done /\ call.balance.done
          => call.computed.value = call.balance.value)
    /\ (call.closing.done /\ call.balance.done
          => call.closing.value = call.balance.value)

\* =========================================================== failed load
\* the step of the load effect's catch (GlobalStore.js lines 164-168) while a
\* blob is stored: the store becomes the initialized initialState
LoadErrorStep ==
  /\ ~state.isInitialized
  /\ persisted.present
  /\ state' = reducer(state, [type |-> "SET_ALL",
                              payload |-> Initialized(initialState)])

\* C28: a load that ends in the error path loses no data: it leaves the blob
\* under the primary key as it is, and it leaves no write in flight that
\* replaces that blob by another one (the empty store of the persist effect)
C28_FailedLoadKeepsTheBlob ==
  [][LoadErrorStep =>
       /\ persisted' = persisted
       /\ \A i \in DOMAIN ioq' : ioq'[i].blob = persisted]_vars

\* ======================================================== failed restore
\* restoreBackup returns success = false (lines 385-388)
RestoreFails == restoreResult # "failed" /\ restoreResult' = "failed"

\* C29: restore is all-or-nothing: when restoreBackup returns success = false
\* the live store holds the pre-restore collections, which are those of the
\* blob under the primary key (restoreBackup read it after every earlier
\* write and no write of that key has completed since)
C29_FailedRestoreKeepsTheStore ==
  [][RestoreFails => SameCollections(state', persisted.data)]_vars

\* ==================================================== migration keeps records
\* as many records as the raw collection, each with the id the raw record had
\* (an id the raw record lacks is given by the migration)
SameRecords(raw, migrated) ==
  /\ Len(migrated) = Len(raw)
  /\ \A i \in DOMAIN raw : raw[i].id # NoId => migrated[i].id = raw[i].id

\* in every collection of the store, the outbox included
KeepsEveryRecord(raw, st) ==
  /\ SameRecords(raw.workers, st.workers)
  /\ SameRecords(raw.categories, st.categories)
  /\ SameRecords(raw.subcategories, st.subcategories)
  /\ SameRecords(raw.entries, st.entries)
  /\ SameRecords(raw.payments, st.payments)
  /\ SameRecords(raw.deferredMessages, st.deferredMessages)

\* the step of the load effect on an Unversioned blob
MigrationStep ==
  /\ ~state.isInitialized /\ state'.isInitialized
  /\ persisted.present /\ persisted.data.schemaVersion < 1

\* C30: the migration loses no record: right after it the live store and the
\* persisted blob hold, in each of workers, categories, subcategories,
\* entries, payments and the outbox of deferred messages, as many records as
\* the raw blob did, with the same ids
C30_MigrationKeepsEveryRecord ==
  [][MigrationStep =>
       /\ KeepsEveryRecord(persisted.data, state')
       /\ KeepsEveryRecord(persisted.data, persisted'.data)]_vars

====
